---------------------------- MODULE Spec2Model ----------------------------
(***************************************************************************)
(* A model of crates/bevy_animation/src/lib.rs: animation clips, the       *)
(* AnimationPlayer control surface and the animation_player system that    *)
(* advances every player and writes the sampled pose into the scene.       *)
(*                                                                         *)
(* Numbers.  Times (elapsed, timestamps, durations, the frame delta) are   *)
(* whole ticks, TicksPerSecond to the second, and their sums are exact.    *)
(* A weight is an f32, held as its IEEE-754 bit pattern (negated for a     *)
(* negative value, so that the order of the integers is the order of the   *)
(* floats), and the arithmetic on weights rounds as f32 arithmetic does.   *)
(* Rust indices are 0-based, TLA+ sequences 1-based: an index i of the     *)
(* code is position i + 1 here.                                            *)
(***************************************************************************)
EXTENDS Integers, Sequences, FiniteSets, TLC

(***************************************************************************)
(* Bounds of the model.                                                    *)
(***************************************************************************)
NumNodes == 3            \* entities of the scene
MaxPaths == 2            \* paths of a clip drawn for a scene
MaxTransitions == 2      \* fading animations a player may hold
MaxCompletions == 4      \* frames stop once a counter reaches this
MaxElapsed == 30         \* frames stop once |elapsed| exceeds this
MaxSteps == 6            \* control calls and passes of a run of Spec
MaxCurves == 4           \* curves added to a clip under construction
MaxKeys == 3             \* keyframes of a searched track

Nodes == 1..NumNodes
Names == 1..NumNodes

\* Option::None for an entity (no parent, empty cache slot, path not found).
NoEntity == 0
\* Option::None for PlayingAnimation::animation_clip.
NoHandle == 0
\* The ticks of one second: a tick is 0.1 s.
TicksPerSecond == 10
\* 1.0_f32, the weight of the active animation and of a new transition.
WeightOne == 1065353216
\* f32 NaN, the result of x % 0.0.
NaN == -1000000

Handles == {1, 2}

VARIABLES
    parent,        \* Parent component: node -> its parent, or NoEntity
    names,         \* Name component: node -> name
    transforms,    \* Transform component of the nodes that have one
    morphs,        \* MorphWeights component of the nodes that have one
    animations,    \* Assets<AnimationClip>: handle -> clip (a partial map)
    player,        \* AnimationPlayer component of the nodes that have one
    changed,       \* per player: mutated from outside since the last pass
    delta,         \* Time::delta_seconds() of the running pass
    pc,            \* per player: position in the running pass
    cursor,        \* per player: index of the next transition to apply
    log,           \* per player: the apply_animation calls of the running pass
    steps,         \* control calls and passes so far, where a specification counts them
    last           \* the last control call and the player before it, where recorded

vars == <<parent, names, transforms, morphs, animations, player, changed,
          delta, pc, cursor, log, steps, last>>

Players == DOMAIN player

-----------------------------------------------------------------------------
(***************************************************************************)
(* RepeatAnimation and PlayingAnimation.                                   *)
(***************************************************************************)
Forever == [kind |-> "Forever", n |-> 0]
Never == [kind |-> "Never", n |-> 0]
Count(n) == [kind |-> "Count", n |-> n]

\* impl Default for PlayingAnimation
DefaultAnimation ==
    [repeat |-> Never, speed |-> 1, elapsed |-> 0, animation_clip |-> NoHandle,
     path_cache |-> <<>>, completions |-> 0]

\* PlayingAnimation { animation_clip: Some(handle), ..Default::default() }
NewAnimation(handle) == [DefaultAnimation EXCEPT !.animation_clip = handle]

finishedStrict(a) ==
    CASE a.repeat.kind = "Forever" -> FALSE
      [] a.repeat.kind = "Never" -> a.completions > 1
      [] a.repeat.kind = "Count" -> a.completions > a.repeat.n

\* PlayingAnimation::finished
finished(a) ==
    CASE a.repeat.kind = "Forever" -> FALSE
      [] a.repeat.kind = "Never" -> a.completions >= 1
      [] a.repeat.kind = "Count" -> a.completions >= a.repeat.n

\* #[derive(Default)] AnimationPlayer
DefaultPlayer ==
    [paused |-> FALSE, animation |-> DefaultAnimation, transitions |-> <<>>]

\* What is recorded of a control call: the method, the handle it was given
\* and the player before it.  A pass records nothing of the player.
Call(op, handle, before) == [op |-> op, handle |-> handle, before |-> before]
NoCall == Call("none", NoHandle, DefaultPlayer)
PassCall == Call("pass", NoHandle, DefaultPlayer)

-----------------------------------------------------------------------------
(***************************************************************************)
(* f32 arithmetic on weights: round to nearest, ties to even.  The values  *)
(* of the model stay within the normal range; infinities, NaN and          *)
(* subnormal numbers do not arise from them.                               *)
(***************************************************************************)
Abs(x) == IF x < 0 THEN -x ELSE x

\* The number of bits of r.
RECURSIVE BitLen(_)
BitLen(r) == IF r = 0 THEN 0 ELSE 1 + BitLen(r \div 2)

\* A finite, normal f32 x # 0 is F32Mant(x) * 2^F32Exp(x), the mantissa in
\* 2^23..2^24-1.
F32Exp(x) == (Abs(x) \div 2^23) - 150
F32Mant(x) == (Abs(x) % 2^23) + 2^23
F32Pack(neg, m, e) ==
    LET bits == (e + 150) * 2^23 + (m - 2^23) IN IF neg THEN -bits ELSE bits

\* The f32 nearest to r * 2^e (plus a fraction of 2^e when sticky), ties to
\* even.
F32Round(neg, r, e, sticky) ==
    LET n == BitLen(r)
        sh == n - 24
        q == r \div 2^sh
        rem == r % 2^sh
        half == 2^(sh - 1)
        up == rem > half \/ (rem = half /\ (sticky \/ q % 2 = 1))
        m == IF up THEN q + 1 ELSE q
    IN IF r = 0 THEN 0
       ELSE IF n <= 24 THEN F32Pack(neg, r * 2^(24 - n), e - (24 - n))
       ELSE IF m = 2^24 THEN F32Pack(neg, 2^23, e + sh + 1)
       ELSE F32Pack(neg, m, e + sh)

\* a + b on f32: the smaller operand is aligned to the larger one with three
\* guard bits.
F32Add(a, b) ==
    IF a = 0 THEN b
    ELSE IF b = 0 THEN a
    ELSE LET big == IF Abs(a) >= Abs(b) THEN a ELSE b
             small == IF Abs(a) >= Abs(b) THEN b ELSE a
             d == F32Exp(big) - F32Exp(small)
             m == F32Mant(big) * 8
             s == F32Mant(small) * 8
             q == IF d >= 27 THEN 0 ELSE s \div 2^d
             sticky == IF d >= 27 THEN TRUE ELSE s % 2^d # 0
             r == IF (a < 0) = (b < 0) THEN m + q
                  ELSE IF sticky THEN m - q - 1
                  ELSE m - q
         IN F32Round(big < 0, r, F32Exp(big) - 3, sticky)

F32Sub(a, b) == F32Add(a, -b)

\* a * b on f32: the 48-bit product of the mantissas, in halves of 12 bits.
F32Mul(a, b) ==
    IF a = 0 \/ b = 0 THEN 0
    ELSE LET ah == F32Mant(a) \div 4096
             al == F32Mant(a) % 4096
             bh == F32Mant(b) \div 4096
             bl == F32Mant(b) % 4096
             mid == ah * bl + al * bh
             low == (mid % 4096) * 4096 + al * bl
             lo == low % 2^24
             hi == ah * bh + mid \div 4096 + low \div 2^24
             e == F32Exp(a) + F32Exp(b)
             neg == (a < 0) # (b < 0)
         IN IF hi >= 2^23
            THEN F32Round(neg, hi * 2 + lo \div 2^23, e + 23, lo % 2^23 # 0)
            ELSE F32Round(neg, hi * 4 + lo \div 2^22, e + 22, lo % 2^22 # 0)

\* n bits of the quotient rem / mb, by long division.
RECURSIVE DivBits(_, _, _, _)
DivBits(rem, mb, n, q) ==
    IF n = 0 THEN <<q, rem>>
    ELSE IF rem >= mb THEN DivBits((rem - mb) * 2, mb, n - 1, q * 2 + 1)
    ELSE DivBits(rem * 2, mb, n - 1, q * 2)

\* a / b on f32, b # 0.
F32Div(a, b) ==
    IF a = 0 THEN 0
    ELSE LET r == DivBits(F32Mant(a), F32Mant(b), 27, 0)
         IN F32Round((a < 0) # (b < 0), r[1], F32Exp(a) - F32Exp(b) - 26, r[2] # 0)

\* An integer below 2^24 as f32.
F32FromInt(n) == F32Round(n < 0, Abs(n), 0, FALSE)

\* Duration::as_secs_f32 and Time::delta_seconds of a whole number of ticks.
Seconds(ticks) == F32Div(F32FromInt(ticks), F32FromInt(TicksPerSecond))

-----------------------------------------------------------------------------
(***************************************************************************)
(* AnimationClip.  paths maps an EntityPath (a sequence of names) to a     *)
(* bone id; curves[bone id + 1] is the list of the bone's tracks.          *)
(***************************************************************************)
EmptyClip == [curves |-> <<>>, paths |-> <<>>, duration |-> 0]

\* keyframe_timestamps.last().unwrap_or(&0.0)
LastTimestampOr0(curve) ==
    IF Len(curve.keyframe_timestamps) = 0 THEN 0
    ELSE curve.keyframe_timestamps[Len(curve.keyframe_timestamps)]

Max(a, b) == IF a >= b THEN a ELSE b

\* The clip's path map is a sequence of <<path, bone id>> pairs, one per key.
PathKeys(clip) == {clip.paths[i][1] : i \in 1..Len(clip.paths)}
BoneOf(clip, path) ==
    LET i == CHOOSE j \in 1..Len(clip.paths) : clip.paths[j][1] = path
    IN clip.paths[i][2]

addCurveOverwritingDuration(clip, path, curve) ==
    LET d == LastTimestampOr0(curve)
    IN IF path \in PathKeys(clip)
       THEN [clip EXCEPT !.duration = d,
                         !.curves[BoneOf(clip, path) + 1] = Append(@, curve)]
       ELSE [curves |-> Append(clip.curves, <<curve>>),
             paths |-> Append(clip.paths, <<path, Len(clip.curves)>>),
             duration |-> d]

\* AnimationClip::add_curve_to_path
addCurveAlwaysNewBone(clip, path, curve) ==
    LET d == Max(clip.duration, LastTimestampOr0(curve))
    IN IF path \in PathKeys(clip)
       THEN [clip EXCEPT !.duration = d,
                         !.curves = Append(@, <<curve>>)]
       ELSE [curves |-> Append(clip.curves, <<curve>>),
             paths |-> Append(clip.paths, <<path, Len(clip.curves)>>),
             duration |-> d]

add_curve_to_path(clip, path, curve) ==
    LET d == Max(clip.duration, LastTimestampOr0(curve))
    IN IF path \in PathKeys(clip)
       THEN [clip EXCEPT !.duration = d,
                         !.curves[BoneOf(clip, path) + 1] = Append(@, curve)]
       ELSE [curves |-> Append(clip.curves, <<curve>>),
             paths |-> Append(clip.paths, <<path, Len(clip.curves)>>),
             duration |-> d]

-----------------------------------------------------------------------------
(***************************************************************************)
(* The hierarchy.  Children is the list of the nodes whose Parent is the   *)
(* node, in ascending entity order; a node without children has no         *)
(* Children component.                                                     *)
(***************************************************************************)
RECURSIVE SortedSeq(_)
SortedSeq(S) ==
    IF S = {} THEN <<>>
    ELSE LET m == CHOOSE x \in S : \A y \in S : x <= y
         IN <<m>> \o SortedSeq(S \ {m})

ChildrenOf(n) == SortedSeq({c \in Nodes : parent[c] = n})

Range(s) == {s[i] : i \in 1..Len(s)}

\* Vec::resize(len, None)
Resize(cache, len) ==
    [i \in 1..len |-> IF i <= Len(cache) THEN cache[i] ELSE NoEntity]

\* The loop of entity_from_path from part idx = pos - 1 on: the node found,
\* the cache, and the number of child lists scanned by name (lines 370-380)
\* on the way.
RECURSIVE PathWalk(_, _, _, _, _)
PathWalk(current_entity, path, path_cache, pos, scans) ==
    IF pos > Len(path)
    THEN [target |-> current_entity, cache |-> path_cache, scans |-> scans]
    ELSE LET children == ChildrenOf(current_entity)
             cached == path_cache[pos]
             hit == /\ cached # NoEntity
                    /\ cached \in Range(children)
                    /\ names[cached] = path[pos]
             found == {i \in 1..Len(children) : names[children[i]] = path[pos]}
         IN IF children = <<>>
            THEN [target |-> NoEntity, cache |-> path_cache, scans |-> scans]
            ELSE IF hit
            THEN PathWalk(cached, path, path_cache, pos + 1, scans)
            ELSE IF found = {}
            THEN [target |-> NoEntity, cache |-> path_cache, scans |-> scans + 1]
            ELSE LET child == children[CHOOSE i \in found : \A j \in found : i <= j]
                 IN PathWalk(child, path, [path_cache EXCEPT ![pos] = child],
                             pos + 1, scans + 1)

RECURSIVE pathWalkTrusting(_, _, _, _, _)
pathWalkTrusting(current_entity, path, path_cache, pos, scans) ==
    IF pos > Len(path)
    THEN [target |-> current_entity, cache |-> path_cache, scans |-> scans]
    ELSE LET children == ChildrenOf(current_entity)
             cached == path_cache[pos]
             found == {i \in 1..Len(children) : names[children[i]] = path[pos]}
         IN IF children = <<>>
            THEN [target |-> NoEntity, cache |-> path_cache, scans |-> scans]
            ELSE IF cached # NoEntity
            THEN pathWalkTrusting(cached, path, path_cache, pos + 1, scans)
            ELSE IF found = {}
            THEN [target |-> NoEntity, cache |-> path_cache, scans |-> scans + 1]
            ELSE LET child == children[CHOOSE i \in found : \A j \in found : i <= j]
                 IN pathWalkTrusting(child, path, [path_cache EXCEPT ![pos] = child],
                                     pos + 1, scans + 1)

entityFromPathTrusting(root, path, path_cache) ==
    pathWalkTrusting(root, path, Resize(path_cache, Len(path)), 2, 0)

\* entity_from_path: the node the path names below root (NoEntity when some
\* part has no matching child), the path's cache after the call and the
\* number of child lists it scanned.
entity_from_path(root, path, path_cache) ==
    PathWalk(root, path, Resize(path_cache, Len(path)), 2, 0)

\* The loop of verify_no_ancestor_player.
RECURSIVE AncestorWalk(_)
AncestorWalk(current) ==
    IF current \in Players THEN FALSE
    ELSE IF parent[current] # NoEntity THEN AncestorWalk(parent[current])
    ELSE TRUE

verifyParentOnly(player_parent) ==
    IF player_parent = NoEntity THEN TRUE ELSE player_parent \notin Players

verifyAlwaysSafe(player_parent) == TRUE

\* verify_no_ancestor_player: TRUE is "safe"
verify_no_ancestor_player(player_parent) ==
    IF player_parent = NoEntity THEN TRUE ELSE AncestorWalk(player_parent)

-----------------------------------------------------------------------------
(***************************************************************************)
(* Sampling a curve at a time.                                             *)
(***************************************************************************)
\* slice::binary_search_by(|probe| probe.partial_cmp(&elapsed)): the loop of
\* the standard library, on the 0-based window [left, right).
RECURSIVE BinarySearch(_, _, _, _)
BinarySearch(ts, elapsed, left, right) ==
    IF left >= right THEN [ok |-> FALSE, idx |-> left]
    ELSE LET mid == left + ((right - left) \div 2)
         IN IF ts[mid + 1] < elapsed THEN BinarySearch(ts, elapsed, mid + 1, right)
            ELSE IF ts[mid + 1] > elapsed THEN BinarySearch(ts, elapsed, left, mid)
            ELSE [ok |-> TRUE, idx |-> mid]

\* "continue" of the keyframe search: the curve writes nothing.
Skip == -1

\* What binary_search_by may return: Err(insertion point) when no timestamp
\* equals elapsed, else Ok(i) for a timestamp equal to elapsed.  Which of
\* several equal timestamps is found is left open by the standard library
\* and has changed between its versions, so each one is a possible result.
SearchResults(ts, elapsed) ==
    IF \E i \in 1..Len(ts) : ts[i] = elapsed
    THEN {[ok |-> TRUE, idx |-> i - 1] : i \in {j \in 1..Len(ts) : ts[j] = elapsed}}
    ELSE {BinarySearch(ts, elapsed, 0, Len(ts))}

stepStartBeforeFirst(ts, r) ==
    IF r.ok THEN (IF r.idx >= Len(ts) - 1 THEN Skip ELSE r.idx)
    ELSE IF r.idx = 0 THEN 0
    ELSE IF r.idx > Len(ts) - 1 THEN Skip
    ELSE r.idx - 1

\* Lines 616-621: the match on the result r of the search.
StepStartOf(ts, r) ==
    IF r.ok THEN (IF r.idx >= Len(ts) - 1 THEN Skip ELSE r.idx)
    ELSE IF r.idx = 0 THEN Skip
    ELSE IF r.idx > Len(ts) - 1 THEN Skip
    ELSE r.idx - 1

\* step_start of apply_animation for a curve of two or more keyframes.
StepStart(ts, elapsed) == StepStartOf(ts, BinarySearch(ts, elapsed, 0, Len(ts)))

\* Lines 623-625: lerp on f32 timestamps; the only division by zero is
\* 0.0 / 0.0, for an exact match on a repeated timestamp.
Lerp(ts, step_start, elapsed) ==
    LET ts_start == ts[step_start + 1]
        ts_end == ts[step_start + 2]
    IN IF F32Sub(ts_end, ts_start) = 0 THEN NaN
       ELSE F32Div(F32Sub(elapsed, ts_start), F32Sub(ts_end, ts_start))

\* The writes of one curve on one target: at most one, to the field its
\* keyframes name.  key is step_start, or 0 for a single keyframe.
CurveWrites(curve, target, elapsed, weight) ==
    LET ts == curve.keyframe_timestamps
        w(k) == <<[node |-> target, kind |-> curve.keyframes, at |-> elapsed,
                   key |-> k, weight |-> weight]>>
        able == IF curve.keyframes = "Weights" THEN target \in DOMAIN morphs
                ELSE TRUE
    IN IF ~able THEN <<>>
       ELSE IF Len(ts) = 1 THEN w(0)
       ELSE IF StepStart(ts, elapsed) = Skip THEN <<>>
       ELSE w(StepStart(ts, elapsed))

RECURSIVE CurvesWrites(_, _, _, _, _)
CurvesWrites(curves, i, target, elapsed, weight) ==
    IF i > Len(curves) THEN <<>>
    ELSE CurveWrites(curves[i], target, elapsed, weight)
         \o CurvesWrites(curves, i + 1, target, elapsed, weight)

-----------------------------------------------------------------------------
(***************************************************************************)
(* apply_animation.                                                        *)
(***************************************************************************)
\* Lines 556-561: the sampling time from the stored elapsed time.  Rust's %
\* on f32 keeps the sign of the dividend and x % 0.0 is NaN; a NaN compares
\* false with everything.
wrapClamped(elapsed, duration) ==
    IF elapsed >= duration THEN duration
    ELSE IF elapsed < 0 THEN elapsed + duration ELSE elapsed

wrapMirrored(elapsed, duration) ==
    LET m == IF elapsed >= duration
             THEN (IF duration = 0 THEN NaN ELSE elapsed % duration)
             ELSE elapsed
    IN IF m # NaN /\ m < 0 THEN -m ELSE m

WrapElapsed(elapsed, duration) ==
    LET m == IF elapsed >= duration
             THEN (IF duration = 0 THEN NaN ELSE elapsed % duration)
             ELSE elapsed
    IN IF m # NaN /\ m < 0 THEN m + duration ELSE m

\* Lines 550-554: whether this call counts a completion.
CountsCompletion(elapsed, speed, duration) ==
    \/ elapsed > duration /\ speed > 0
    \/ elapsed < 0 /\ speed < 0

\* Lines 570-659: the loop over the clip's (path, bone id) pairs, from pair i
\* on, in the order the pairs were inserted.
RECURSIVE pathsLoopStopping(_, _, _, _, _, _)
pathsLoopStopping(clip, i, path_cache, root, elapsed, weight) ==
    IF i > Len(clip.paths)
    THEN [path_cache |-> path_cache, writes |-> <<>>, found |-> <<>>]
    ELSE LET path == clip.paths[i][1]
             bone_id == clip.paths[i][2]
             r == entity_from_path(root, path, path_cache[bone_id + 1])
             cache == [path_cache EXCEPT ![bone_id + 1] = r.cache]
             rest == IF r.target = NoEntity
                     THEN [path_cache |-> cache, writes |-> <<>>, found |-> <<>>]
                     ELSE pathsLoopStopping(clip, i + 1, cache, root, elapsed, weight)
             here == IF r.target = NoEntity \/ r.target \notin DOMAIN transforms
                     THEN <<>>
                     ELSE CurvesWrites(clip.curves[bone_id + 1], 1, r.target,
                                       elapsed, weight)
         IN [path_cache |-> rest.path_cache, writes |-> here \o rest.writes,
             found |-> <<[path |-> path, bone_id |-> bone_id, target |-> r.target,
                          scans |-> r.scans]>> \o rest.found]

RECURSIVE PathsLoop(_, _, _, _, _, _)
PathsLoop(clip, i, path_cache, root, elapsed, weight) ==
    IF i > Len(clip.paths)
    THEN [path_cache |-> path_cache, writes |-> <<>>, found |-> <<>>]
    ELSE LET path == clip.paths[i][1]
             bone_id == clip.paths[i][2]
             r == entity_from_path(root, path, path_cache[bone_id + 1])
             cache == [path_cache EXCEPT ![bone_id + 1] = r.cache]
             rest == PathsLoop(clip, i + 1, cache, root, elapsed, weight)
             here == IF r.target = NoEntity \/ r.target \notin DOMAIN transforms
                     THEN <<>>
                     ELSE CurvesWrites(clip.curves[bone_id + 1], 1, r.target,
                                       elapsed, weight)
         IN [path_cache |-> rest.path_cache, writes |-> here \o rest.writes,
             found |-> <<[path |-> path, bone_id |-> bone_id, target |-> r.target,
                          scans |-> r.scans]>> \o rest.found]

guardIgnored(player_parent) == TRUE

\* Line 565: the aliasing guard as apply_animation consults it.
GuardPasses(player_parent) == verify_no_ancestor_player(player_parent)

applyClipResizing(weight, animation, animation_clip, paused, root, dt) ==
    LET stored == IF ~finished(animation) /\ ~paused
                  THEN animation.elapsed + dt * animation.speed
                  ELSE animation.elapsed
        completions ==
            IF CountsCompletion(stored, animation.speed, animation_clip.duration)
            THEN animation.completions + 1
            ELSE animation.completions
        elapsed == WrapElapsed(stored, animation_clip.duration)
        path_cache ==
            [i \in 1..Len(animation_clip.paths) |->
                IF i <= Len(animation.path_cache) THEN animation.path_cache[i]
                ELSE <<>>]
        advanced == [animation EXCEPT !.elapsed = stored,
                                      !.completions = completions,
                                      !.path_cache = path_cache]
        loop == PathsLoop(animation_clip, 1, path_cache, root, elapsed, weight)
    IN IF ~GuardPasses(parent[root])
       THEN [animation |-> advanced, ran |-> "unsafe", at |-> elapsed,
             writes |-> <<>>, found |-> <<>>]
       ELSE [animation |-> [advanced EXCEPT !.path_cache = loop.path_cache],
             ran |-> "sampled", at |-> elapsed, writes |-> loop.writes,
             found |-> loop.found]

\* Lines 543-660: apply_animation once the handle has resolved to
\* animation_clip.
ApplyClip(weight, animation, animation_clip, paused, root, dt) ==
    LET stored == IF ~finished(animation) /\ ~paused
                  THEN animation.elapsed + dt * animation.speed
                  ELSE animation.elapsed
        completions ==
            IF CountsCompletion(stored, animation.speed, animation_clip.duration)
            THEN animation.completions + 1
            ELSE animation.completions
        elapsed == WrapElapsed(stored, animation_clip.duration)
        path_cache ==
            IF Len(animation.path_cache) # Len(animation_clip.paths)
            THEN [i \in 1..Len(animation_clip.paths) |-> <<>>]
            ELSE animation.path_cache
        advanced == [animation EXCEPT !.elapsed = stored,
                                      !.completions = completions,
                                      !.path_cache = path_cache]
        loop == PathsLoop(animation_clip, 1, path_cache, root, elapsed, weight)
    IN IF ~GuardPasses(parent[root])
       THEN [animation |-> advanced, ran |-> "unsafe", at |-> elapsed,
             writes |-> <<>>, found |-> <<>>]
       ELSE [animation |-> [advanced EXCEPT !.path_cache = loop.path_cache],
             ran |-> "sampled", at |-> elapsed, writes |-> loop.writes,
             found |-> loop.found]

applyDefaultClipWhenMissing(weight, animation, paused, root, dt) ==
    IF animation.animation_clip = NoHandle
    THEN [animation |-> animation, ran |-> "idle", at |-> 0, writes |-> <<>>,
          found |-> <<>>]
    ELSE IF animation.animation_clip \notin DOMAIN animations
    THEN [ApplyClip(weight, animation, EmptyClip, paused, root, dt)
              EXCEPT !.ran = "missing"]
    ELSE ApplyClip(weight, animation, animations[animation.animation_clip],
                   paused, root, dt)

\* apply_animation(weight, animation, paused, root, ...): the animation after
\* the call, how far the call got, the sampling time, the writes it made and
\* what entity_from_path returned for each path.
apply_animation(weight, animation, paused, root, dt) ==
    IF animation.animation_clip = NoHandle
    THEN [animation |-> animation, ran |-> "idle", at |-> 0, writes |-> <<>>,
          found |-> <<>>]
    ELSE IF animation.animation_clip \notin DOMAIN animations
    THEN [animation |-> animation, ran |-> "missing", at |-> 0, writes |-> <<>>,
          found |-> <<>>]
    ELSE ApplyClip(weight, animation, animations[animation.animation_clip],
                   paused, root, dt)

\* The value a write leaves in the field it writes: who wrote it, from which
\* clip, sampled at which time and keyframe, blended at which weight.
Rest == [by |-> NoEntity, clip |-> NoHandle, at |-> 0, key |-> 0, weight |-> 0]
Pose(root, handle, write) ==
    [by |-> root, clip |-> handle, at |-> write.at, key |-> write.key,
     weight |-> write.weight]

FieldOf(kind) ==
    CASE kind = "Rotation" -> "rotation"
      [] kind = "Translation" -> "translation"
      [] kind = "Scale" -> "scale"

\* The Transform components after the writes, applied in order.
RECURSIVE WriteTransforms(_, _, _, _, _)
WriteTransforms(ts, root, handle, writes, i) ==
    IF i > Len(writes) THEN ts
    ELSE LET w == writes[i]
             next == IF w.kind = "Weights" THEN ts
                     ELSE [ts EXCEPT ![w.node][FieldOf(w.kind)] = Pose(root, handle, w)]
         IN WriteTransforms(next, root, handle, writes, i + 1)

\* The MorphWeights components after the writes, applied in order.
RECURSIVE WriteMorphs(_, _, _, _, _)
WriteMorphs(ms, root, handle, writes, i) ==
    IF i > Len(writes) THEN ms
    ELSE LET w == writes[i]
             next == IF w.kind = "Weights"
                     THEN [ms EXCEPT ![w.node] = Pose(root, handle, w)]
                     ELSE ms
         IN WriteMorphs(next, root, handle, writes, i + 1)

\* update_transitions: retain_mut over the list, in order.
RECURSIVE Retain(_, _, _)
Retain(transitions, dt, i) ==
    IF i > Len(transitions) THEN <<>>
    ELSE LET t == transitions[i]
             decayed == [t EXCEPT !.current_weight =
                             F32Sub(@, F32Mul(t.weight_decline_per_sec, Seconds(dt)))]
         IN (IF decayed.current_weight > 0 THEN <<decayed>> ELSE <<>>)
            \o Retain(transitions, dt, i + 1)

updateUnlessPaused(p, dt) ==
    [p EXCEPT !.transitions = IF p.paused THEN @ ELSE Retain(@, dt, 1)]

\* update_transitions
update_transitions(p, dt) == [p EXCEPT !.transitions = Retain(@, dt, 1)]

-----------------------------------------------------------------------------
(***************************************************************************)
(* The control surface of AnimationPlayer, as functions of the player.     *)
(***************************************************************************)
startKeepTransitions(p, handle) == [p EXCEPT !.animation = NewAnimation(handle)]

\* AnimationPlayer::start
start(p, handle) ==
    [p EXCEPT !.animation = NewAnimation(handle), !.transitions = <<>>]

\* 1.0 / transition_duration.as_secs_f32()
DeclineRate(transition_duration) == F32Div(WeightOne, Seconds(transition_duration))

startWithTransitionInFront(p, handle, transition_duration) ==
    [p EXCEPT !.animation = NewAnimation(handle),
              !.transitions =
                  <<[current_weight |-> WeightOne,
                     weight_decline_per_sec |-> DeclineRate(transition_duration),
                     animation |-> p.animation]>> \o @]

\* AnimationPlayer::start_with_transition
start_with_transition(p, handle, transition_duration) ==
    [p EXCEPT !.animation = NewAnimation(handle),
              !.transitions = Append(@,
                  [current_weight |-> WeightOne,
                   weight_decline_per_sec |-> DeclineRate(transition_duration),
                   animation |-> p.animation])]

\* AnimationPlayer::animation_clip and AnimationPlayer::is_playing_clip
is_playing_clip(p, handle) ==
    IF p.animation.animation_clip # NoHandle
    THEN p.animation.animation_clip = handle
    ELSE FALSE

\* AnimationPlayer::is_paused
is_paused(p) == p.paused

\* AnimationPlayer::is_finished
is_finished(p) == finished(p.animation)

playIgnoringPause(p, handle) ==
    IF ~is_playing_clip(p, handle) THEN start(p, handle) ELSE p

\* AnimationPlayer::play
play(p, handle) ==
    IF ~is_playing_clip(p, handle) \/ is_paused(p) THEN start(p, handle) ELSE p

\* AnimationPlayer::play_with_transition
play_with_transition(p, handle, transition_duration) ==
    IF ~is_playing_clip(p, handle) \/ is_paused(p)
    THEN start_with_transition(p, handle, transition_duration)
    ELSE p

\* AnimationPlayer::repeat, stop_repeating, set_repeat
repeat(p) == [p EXCEPT !.animation.repeat = Forever]
stop_repeating(p) == [p EXCEPT !.animation.repeat = Never]
set_repeat(p, r) == [p EXCEPT !.animation.repeat = r]

\* AnimationPlayer::pause, resume
pause(p) == [p EXCEPT !.paused = TRUE]
resume(p) == [p EXCEPT !.paused = FALSE]

\* AnimationPlayer::set_speed, set_elapsed
set_speed(p, speed) == [p EXCEPT !.animation.speed = speed]
set_elapsed(p, elapsed) == [p EXCEPT !.animation.elapsed = elapsed]

\* Change detection of the component: whether the player was mutated from
\* outside since the previous pass of animation_player.
is_changed(e) == changed[e]

-----------------------------------------------------------------------------
(***************************************************************************)
(* Actions.  A control call runs between two passes of animation_player    *)
(* (a system holding &mut AnimationPlayer never runs beside it); within a  *)
(* pass the players run in parallel, one apply_animation call at a time.   *)
(***************************************************************************)
Idle == \A e \in Players : pc[e] = "idle"

\* A control call on player e that leaves the player in state q.
Control(e, q) ==
    /\ Idle
    /\ player' = [player EXCEPT ![e] = q]
    /\ changed' = [changed EXCEPT ![e] = TRUE]
    /\ UNCHANGED <<parent, names, transforms, morphs, animations, delta, pc,
                   cursor, log>>

Start(e, handle) == Control(e, start(player[e], handle))

StartWithTransition(e, handle, d) ==
    /\ Len(player[e].transitions) < MaxTransitions
    /\ Control(e, start_with_transition(player[e], handle, d))

Play(e, handle) == Control(e, play(player[e], handle))

PlayWithTransition(e, handle, d) ==
    /\ Len(player[e].transitions) < MaxTransitions
    /\ Control(e, play_with_transition(player[e], handle, d))

Repeat(e) == Control(e, repeat(player[e]))
StopRepeating(e) == Control(e, stop_repeating(player[e]))
SetRepeat(e, r) == Control(e, set_repeat(player[e], r))
Pause(e) == Control(e, pause(player[e]))
Resume(e) == Control(e, resume(player[e]))
SetSpeed(e, speed) == Control(e, set_speed(player[e], speed))
SetElapsed(e, elapsed) == Control(e, set_elapsed(player[e], elapsed))

\* The animations a player holds: the active one, then the fading ones.
AnimationsOf(p) ==
    <<p.animation>> \o [i \in 1..Len(p.transitions) |-> p.transitions[i].animation]

\* The counters of every animation are within the bounds of the model.
WithinBounds ==
    \A e \in Players : \A i \in 1..Len(AnimationsOf(player[e])) :
        /\ AnimationsOf(player[e])[i].completions < MaxCompletions
        /\ Abs(AnimationsOf(player[e])[i].elapsed) <= MaxElapsed

\* The schedule runs animation_player with Time::delta_seconds() = dt.
BeginFrame(dt) ==
    /\ Idle
    /\ WithinBounds
    /\ delta' = dt
    /\ pc' = [e \in Players |-> "ready"]
    /\ cursor' = [e \in Players |-> 1]
    /\ log' = [e \in Players |-> <<>>]
    /\ UNCHANGED <<parent, names, transforms, morphs, animations, player, changed>>

\* What one apply_animation call leaves in the log of the pass.
Applied(slot, weight, handle, r) ==
    [slot |-> slot, weight |-> weight, clip |-> handle, ran |-> r.ran,
     at |-> r.at, writes |-> r.writes, found |-> r.found]

playerBeginSkipsPaused(root) ==
    /\ pc[root] = "ready"
    /\ LET p == update_transitions(player[root], delta)
           paused == p.paused
           r == apply_animation(WeightOne, p.animation, paused, root, delta)
           h == p.animation.animation_clip
       IN IF paused
          THEN /\ player' = [player EXCEPT ![root] = p]
               /\ pc' = [pc EXCEPT ![root] = "done"]
               /\ UNCHANGED <<transforms, morphs, log>>
          ELSE /\ player' = [player EXCEPT ![root] = [p EXCEPT !.animation = r.animation]]
               /\ transforms' = WriteTransforms(transforms, root, h, r.writes, 1)
               /\ morphs' = WriteMorphs(morphs, root, h, r.writes, 1)
               /\ log' = [log EXCEPT ![root] = <<Applied(0, WeightOne, h, r)>>]
               /\ pc' = [pc EXCEPT ![root] =
                            IF p.transitions = <<>> THEN "done" ELSE "fading"]
    /\ UNCHANGED <<parent, names, animations, changed, delta, cursor>>

\* The closure of animation_player for player root, up to the end of the
\* first apply_animation call: update_transitions, the paused check of
\* run_animation_player, and the main animation at weight 1.0.
PlayerBegin(root) ==
    /\ pc[root] = "ready"
    /\ LET p == update_transitions(player[root], delta)
           paused == p.paused
           r == apply_animation(WeightOne, p.animation, paused, root, delta)
           h == p.animation.animation_clip
       IN IF paused /\ ~is_changed(root)
          THEN /\ player' = [player EXCEPT ![root] = p]
               /\ pc' = [pc EXCEPT ![root] = "done"]
               /\ UNCHANGED <<transforms, morphs, log>>
          ELSE /\ player' = [player EXCEPT ![root] = [p EXCEPT !.animation = r.animation]]
               /\ transforms' = WriteTransforms(transforms, root, h, r.writes, 1)
               /\ morphs' = WriteMorphs(morphs, root, h, r.writes, 1)
               /\ log' = [log EXCEPT ![root] = <<Applied(0, WeightOne, h, r)>>]
               /\ pc' = [pc EXCEPT ![root] =
                            IF p.transitions = <<>> THEN "done" ELSE "fading"]
    /\ UNCHANGED <<parent, names, animations, changed, delta, cursor>>

playerTransitionNewestFirst(root) ==
    /\ pc[root] = "fading"
    /\ LET p == player[root]
           k == Len(p.transitions) + 1 - cursor[root]
           t == p.transitions[k]
           r == apply_animation(t.current_weight, t.animation, p.paused, root, delta)
           h == t.animation.animation_clip
       IN /\ player' = [player EXCEPT ![root].transitions[k].animation = r.animation]
          /\ transforms' = WriteTransforms(transforms, root, h, r.writes, 1)
          /\ morphs' = WriteMorphs(morphs, root, h, r.writes, 1)
          /\ log' = [log EXCEPT ![root] = Append(@, Applied(k, t.current_weight, h, r))]
          /\ cursor' = [cursor EXCEPT ![root] = cursor[root] + 1]
          /\ pc' = [pc EXCEPT ![root] =
                       IF cursor[root] = Len(p.transitions) THEN "done" ELSE "fading"]
    /\ UNCHANGED <<parent, names, animations, changed, delta>>

\* The next iteration of the loop over player.transitions.
PlayerTransition(root) ==
    /\ pc[root] = "fading"
    /\ LET p == player[root]
           k == cursor[root]
           t == p.transitions[k]
           r == apply_animation(t.current_weight, t.animation, p.paused, root, delta)
           h == t.animation.animation_clip
       IN /\ player' = [player EXCEPT ![root].transitions[k].animation = r.animation]
          /\ transforms' = WriteTransforms(transforms, root, h, r.writes, 1)
          /\ morphs' = WriteMorphs(morphs, root, h, r.writes, 1)
          /\ log' = [log EXCEPT ![root] = Append(@, Applied(k, t.current_weight, h, r))]
          /\ cursor' = [cursor EXCEPT ![root] = k + 1]
          /\ pc' = [pc EXCEPT ![root] =
                       IF k = Len(p.transitions) THEN "done" ELSE "fading"]
    /\ UNCHANGED <<parent, names, animations, changed, delta>>

\* Every closure has returned: the pass ends.
EndFrame ==
    /\ \A e \in Players : pc[e] = "done"
    /\ Players # {}
    /\ pc' = [e \in Players |-> "idle"]
    /\ changed' = [e \in Players |-> FALSE]
    /\ UNCHANGED <<parent, names, transforms, morphs, animations, player, delta,
                   cursor, log>>

-----------------------------------------------------------------------------
(***************************************************************************)
(* SpecScene: every scene of NumNodes entities, every placement of players *)
(* on it and every clip of up to MaxPaths paths, under the passes of       *)
(* animation_player.  Entities are numbered parents first, and every       *)
(* entity carries its own name.                                            *)
(***************************************************************************)
Forests == {f \in [Nodes -> 0..NumNodes] : \A n \in Nodes : f[n] < n}

\* The names from ancestor a down to b in forest f.
RECURSIVE ChainPath(_, _, _)
ChainPath(f, a, b) == IF a = b THEN <<a>> ELSE Append(ChainPath(f, a, f[b]), b)

RECURSIVE IsAncestorOrSelf(_, _, _)
IsAncestorOrSelf(f, a, b) ==
    IF a = b THEN TRUE
    ELSE IF f[b] = NoEntity THEN FALSE
    ELSE IsAncestorOrSelf(f, a, f[b])

\* The paths that name a node of forest f at or below one of the roots, and
\* one that names none (entity 1 is never a child).  Part 0 of a path is
\* never read (line 356), so a path that starts elsewhere resolves from no
\* root at all, like the last one.
ScenePaths(f, roots) ==
    {ChainPath(f, ab[1], ab[2]) :
        ab \in {ab \in roots \X Nodes : IsAncestorOrSelf(f, ab[1], ab[2])}}
    \cup {<<1, 1>>}

\* The curves a scene's clip gives each of its paths.
SceneCurves ==
    <<[keyframe_timestamps |-> <<0, 2>>, keyframes |-> "Rotation"],
      [keyframe_timestamps |-> <<1>>, keyframes |-> "Weights"]>>

\* The clip built by add_curve_to_path from the paths, in order.
RECURSIVE ClipOf(_, _)
ClipOf(paths, n) ==
    IF n = 0 THEN EmptyClip
    ELSE add_curve_to_path(
             add_curve_to_path(ClipOf(paths, n - 1), paths[n], SceneCurves[1]),
             paths[n], SceneCurves[2])

RECURSIVE SeqOfSet(_)
SeqOfSet(S) ==
    IF S = {} THEN <<>>
    ELSE LET x == CHOOSE y \in S : TRUE IN <<x>> \o SeqOfSet(S \ {x})

RestTransform == [rotation |-> Rest, translation |-> Rest, scale |-> Rest]

\* A player playing clip 1, and one that was playing it and then began a
\* cross-fade of 3 ticks to it.
PlainPlayer == start(DefaultPlayer, 1)
FadingPlayer == start_with_transition(PlainPlayer, 1, 3)

InitScene ==
    /\ parent \in Forests
    /\ names = [n \in Nodes |-> n]
    /\ transforms = [n \in Nodes |-> RestTransform]
    /\ morphs = [n \in Nodes |-> Rest]
    /\ \E S \in SUBSET Nodes : \E p \in {PlainPlayer, FadingPlayer} :
          /\ S # {}
          /\ player = [e \in S |-> p]
    /\ \E S \in SUBSET ScenePaths(parent, DOMAIN player) :
          /\ Cardinality(S) \in 1..MaxPaths
          /\ animations = [h \in {1} |-> ClipOf(SeqOfSet(S), Cardinality(S))]
    /\ changed = [e \in DOMAIN player |-> TRUE]
    /\ delta = 0
    /\ pc = [e \in DOMAIN player |-> "idle"]
    /\ cursor = [e \in DOMAIN player |-> 1]
    /\ log = [e \in DOMAIN player |-> <<>>]
    /\ steps = 0
    /\ last = NoCall

\* The passes run until the first animation has finished.
SceneRuns == \A e \in Players : ~is_finished(player[e])

NextScene ==
    \/ SceneRuns /\ BeginFrame(2) /\ UNCHANGED <<steps, last>>
    \/ \E e \in Players : PlayerBegin(e) /\ UNCHANGED <<steps, last>>
    \/ \E e \in Players : PlayerTransition(e) /\ UNCHANGED <<steps, last>>
    \/ EndFrame /\ UNCHANGED <<steps, last>>

SpecScene == InitScene /\ [][NextScene]_vars

-----------------------------------------------------------------------------
(***************************************************************************)
(* Properties of the aliasing guard (SpecScene).                           *)
(***************************************************************************)
\* The nodes player e has written in the running (or the last) pass.
Written(e) ==
    {log[e][i].writes[j].node :
        <<i, j>> \in {ij \in (1..Len(log[e])) \X (1..4 * NumNodes) :
                        ij[2] <= Len(log[e][ij[1]].writes)}}

\* The players that left a value in some field of node n.
Authors(n) ==
    {transforms[n].rotation.by, transforms[n].translation.by,
     transforms[n].scale.by, morphs[n].by} \ {NoEntity}

\* The proper ancestors of node n, by following Parent up to NumNodes times.
RECURSIVE Up(_, _)
Up(n, k) == IF k = 0 \/ n = NoEntity THEN n ELSE Up(parent[n], k - 1)
Ancestors(n) == {Up(n, k) : k \in 1..NumNodes} \ {NoEntity}

Safe(e) == verify_no_ancestor_player(parent[e])

\* C1: within one pass, no node is written by two different players: the
\* sets of nodes written by two players are disjoint, at every point of every
\* interleaving of the players, and every write is made by a player that
\* passed verify_no_ancestor_player.
C1_DisjointWrites ==
    /\ \A e1, e2 \in Players : e1 # e2 => Written(e1) \cap Written(e2) = {}
    /\ \A e \in Players : Written(e) # {} => Safe(e)

\* Two players have written in the same pass while a third was refused.
C1_Witness ==
    \E e1, e2, e3 \in Players :
        /\ e1 # e2
        /\ Written(e1) # {} /\ Written(e2) # {}
        /\ ~Safe(e3)

\* C2: verify_no_ancestor_player returns false exactly for the players with
\* an AnimationPlayer somewhere on their chain of parents, at any distance,
\* and true for a player without a parent or with no player above it.
C2_GuardIsAncestorCheck ==
    \A e \in Players :
        /\ Safe(e) = (Ancestors(e) \cap Players = {})
        /\ parent[e] = NoEntity => Safe(e)

\* A player refused for a player two levels up, its own parent carrying
\* none, next to a player that is accepted for having no parent.
C2_Witness ==
    /\ \E e \in Players :
          /\ ~Safe(e)
          /\ parent[e] # NoEntity /\ parent[e] \notin Players
          /\ parent[parent[e]] \in Players
    /\ \E e \in Players : Safe(e) /\ parent[e] = NoEntity

\* C3: a player the guard refuses writes nothing, neither for its active
\* animation nor for a transition: every apply_animation call of it ends
\* "unsafe" with no write and no field of the scene holds a value of it;
\* a player the guard accepts has its calls sample in the same pass.
C3_UnsafeWritesNothing ==
    \A e \in Players :
        /\ ~Safe(e) =>
              /\ \A i \in 1..Len(log[e]) :
                    log[e][i].ran = "unsafe" /\ log[e][i].writes = <<>>
              /\ \A n \in Nodes : e \notin Authors(n)
        /\ Safe(e) => \A i \in 1..Len(log[e]) : log[e][i].ran = "sampled"

\* A pass in which a refused player ran its active animation and a
\* transition, and an accepted player wrote a transform and morph weights.
C3_Witness ==
    \E e1, e2 \in Players :
        /\ ~Safe(e1) /\ Len(log[e1]) = 2 /\ pc[e1] = "done"
        /\ Safe(e2) /\ pc[e2] = "done"
        /\ \E n \in Nodes : transforms[n].rotation.by = e2 /\ morphs[n].by = e2

\* elapsed, completions and path_cache of the animations a player holds.
Progress(p) ==
    [i \in 1..Len(AnimationsOf(p)) |->
        <<AnimationsOf(p)[i].elapsed, AnimationsOf(p)[i].completions,
          AnimationsOf(p)[i].path_cache>>]

\* C4: a pass leaves elapsed, completions and path_cache of the active
\* animation and of every transition of a refused player as they were (no
\* step of SpecScene is a control call).
C4_UnsafeStateUntouched ==
    [][\A e \in Players :
          (~Safe(e) /\ Len(player'[e].transitions) = Len(player[e].transitions))
              => Progress(player'[e]) = Progress(player[e])]_vars

-----------------------------------------------------------------------------
(***************************************************************************)
(* SpecWrap: one player at the root of a chain of entities, playing a clip *)
(* of 20 ticks (2.0 s in ticks of 0.1 s) forward and backward under every  *)
(* repeat policy, with frames of 3 and 4 ticks.                            *)
(***************************************************************************)
ChainParent == [n \in Nodes |-> n - 1]

WrapClip ==
    add_curve_to_path(
        add_curve_to_path(EmptyClip, <<1, 2>>,
            [keyframe_timestamps |-> <<0, 20>>, keyframes |-> "Rotation"]),
        <<1>>, [keyframe_timestamps |-> <<0, 10, 20>>, keyframes |-> "Translation"])

WrapDeltas == {3, 4}
WrapElapsedInputs == {1, 19}
WrapSpeeds == {-2, -1, 1, 2}
WrapRepeats == {Forever, Never, Count(3)}

InitWrap ==
    /\ parent = ChainParent
    /\ names = [n \in Nodes |-> n]
    /\ transforms = [n \in Nodes |-> RestTransform]
    /\ morphs = [n \in Nodes |-> Rest]
    /\ animations = [h \in {1} |-> WrapClip]
    /\ player = [e \in {1} |-> DefaultPlayer]
    /\ changed = [e \in {1} |-> TRUE]
    /\ delta = 0
    /\ pc = [e \in {1} |-> "idle"]
    /\ cursor = [e \in {1} |-> 1]
    /\ log = [e \in {1} |-> <<>>]
    /\ steps = 0
    /\ last = NoCall

NextWrap ==
    \/ \E e \in Players : Start(e, 1) /\ UNCHANGED <<steps, last>>
    \/ \E e \in Players, r \in WrapRepeats : SetRepeat(e, r) /\ UNCHANGED <<steps, last>>
    \/ \E e \in Players, v \in WrapSpeeds : SetSpeed(e, v) /\ UNCHANGED <<steps, last>>
    \/ \E e \in Players, t \in WrapElapsedInputs : SetElapsed(e, t) /\ UNCHANGED <<steps, last>>
    \/ \E e \in Players : Pause(e) /\ UNCHANGED <<steps, last>>
    \/ \E e \in Players : Resume(e) /\ UNCHANGED <<steps, last>>
    \/ \E dt \in WrapDeltas : BeginFrame(dt) /\ UNCHANGED <<steps, last>>
    \/ \E e \in Players : PlayerBegin(e) /\ UNCHANGED <<steps, last>>
    \/ EndFrame /\ UNCHANGED <<steps, last>>

SpecWrap == InitWrap /\ [][NextWrap]_vars

-----------------------------------------------------------------------------
(***************************************************************************)
(* Properties of playback (SpecWrap).                                      *)
(***************************************************************************)
Active(e) == player[e].animation
ActiveAfter(e) == player'[e].animation

\* The step in which the closure of player e applies its active animation,
\* the animation's clip being in the store.
AppliesActive(e) ==
    /\ pc[e] = "ready" /\ pc'[e] # "ready"
    /\ Len(log'[e]) >= 1
    /\ Active(e).animation_clip \in DOMAIN animations

ActiveDuration(e) == animations[Active(e).animation_clip].duration

\* The advance of elapsed in this step crosses the clip boundary in the
\* direction of travel.
Crosses(e) ==
    \/ /\ Active(e).speed > 0
       /\ Active(e).elapsed <= ActiveDuration(e)
       /\ ActiveAfter(e).elapsed > ActiveDuration(e)
    \/ /\ Active(e).speed < 0
       /\ Active(e).elapsed >= 0
       /\ ActiveAfter(e).elapsed < 0

\* C5: completions counts the boundary crossings: a frame raises it by
\* exactly 1 when the advance of elapsed crosses the clip boundary in the
\* direction of travel, and leaves it alone otherwise.
C5_CompletionsCountCrossings ==
    [][\A e \in Players :
          AppliesActive(e) =>
              ActiveAfter(e).completions =
                  Active(e).completions + (IF Crosses(e) THEN 1 ELSE 0)]_vars

\* C6: is_finished() is true exactly when repeat is Never and completions
\* >= 1, or repeat is Count(n) and completions >= n; it is false for
\* Count(3) below 3 completions and for Forever whatever completions is.
C6_FinishedIffRepeatReached ==
    \A e \in Players :
        LET a == Active(e)
        IN /\ is_finished(player[e]) <=>
                 \/ a.repeat = Never /\ a.completions >= 1
                 \/ a.repeat.kind = "Count" /\ a.completions >= a.repeat.n
           /\ (a.repeat = Count(3) /\ a.completions \in {0, 1, 2})
                 => ~is_finished(player[e])
           /\ a.repeat = Forever => ~is_finished(player[e])

\* A Count(3) animation at its third completion, reported finished.
C6_Witness ==
    \E e \in Players :
        /\ Active(e).repeat = Count(3)
        /\ Active(e).completions = 3
        /\ is_finished(player[e])

\* C7: forward wrap.  For an unpaused, unfinished animation with speed > 0,
\* a frame that takes elapsed from e <= duration to e' with
\* duration < e' < 2 * duration samples every curve at e' - duration and
\* raises completions by exactly 1.
C7_ForwardWrap ==
    [][\A e \in Players :
          (/\ AppliesActive(e)
           /\ ~player[e].paused /\ ~finished(Active(e))
           /\ Active(e).speed > 0
           /\ Active(e).elapsed <= ActiveDuration(e)
           /\ ActiveAfter(e).elapsed > ActiveDuration(e)
           /\ ActiveAfter(e).elapsed < 2 * ActiveDuration(e))
          => /\ ActiveAfter(e).elapsed = Active(e).elapsed + delta * Active(e).speed
             /\ log'[e][1].ran = "sampled"
             /\ log'[e][1].at = ActiveAfter(e).elapsed - ActiveDuration(e)
             /\ \A j \in 1..Len(log'[e][1].writes) :
                   log'[e][1].writes[j].at = ActiveAfter(e).elapsed - ActiveDuration(e)
             /\ ActiveAfter(e).completions = Active(e).completions + 1]_vars

\* The frame of 0.4 s that takes a clip of 2.0 s from 1.9 s to 2.3 s at
\* speed 1.0: sampled at 0.3 s, one completion.
C7_Witness ==
    /\ pc[1] = "done" /\ delta = 4
    /\ ~player[1].paused
    /\ Active(1).speed = 1 /\ Active(1).elapsed = 23
    /\ Active(1).completions = 1
    /\ ActiveDuration(1) = 20
    /\ log[1][1].at = 3
    /\ log[1][1].writes # <<>>

\* C8 as claimed: at speed -1.0 the frame that takes elapsed from 0.1 to
\* -0.2 samples at duration - 0.1 and raises completions by exactly 1.
C8_ReverseWrapAsClaimed ==
    [][\A e \in Players :
          (/\ AppliesActive(e)
           /\ ~player[e].paused /\ ~finished(Active(e))
           /\ Active(e).speed = -1
           /\ Active(e).elapsed = 1
           /\ ActiveAfter(e).elapsed = -2)
          => /\ log'[e][1].at = ActiveDuration(e) - 1
             /\ ActiveAfter(e).completions = Active(e).completions + 1]_vars

\* C8, amended: reverse wrap.  For an unpaused, unfinished animation with
\* speed -1.0, a frame that takes elapsed from e >= 0 to e' with
\* -duration < e' < 0 samples every curve at duration + e' (from 0.1 to -0.2:
\* at duration - 0.2) and raises completions by exactly 1.
C8_ReverseWrap ==
    [][\A e \in Players :
          (/\ AppliesActive(e)
           /\ ~player[e].paused /\ ~finished(Active(e))
           /\ Active(e).speed = -1
           /\ Active(e).elapsed >= 0
           /\ ActiveAfter(e).elapsed < 0
           /\ ActiveAfter(e).elapsed > -ActiveDuration(e))
          => /\ ActiveAfter(e).elapsed = Active(e).elapsed - delta
             /\ log'[e][1].ran = "sampled"
             /\ log'[e][1].at = ActiveDuration(e) + ActiveAfter(e).elapsed
             /\ \A j \in 1..Len(log'[e][1].writes) :
                   log'[e][1].writes[j].at = ActiveDuration(e) + ActiveAfter(e).elapsed
             /\ ActiveAfter(e).completions = Active(e).completions + 1]_vars

\* The frame of 0.3 s that takes a clip of 2.0 s from 0.1 s to -0.2 s at
\* speed -1.0: sampled at 1.8 s, one completion.
C8_Witness ==
    /\ pc[1] = "done" /\ delta = 3
    /\ ~player[1].paused
    /\ Active(1).speed = -1 /\ Active(1).elapsed = -2
    /\ Active(1).completions = 1
    /\ ActiveDuration(1) = 20
    /\ log[1][1].at = 18
    /\ log[1][1].writes # <<>>

-----------------------------------------------------------------------------
(***************************************************************************)
(* Spec: one player at the root of a chain of entities under every control *)
(* call and pass, two clips in the store, frames of 2 ticks, cross-fades   *)
(* of 4 and 6 ticks.  A run makes at most MaxSteps control calls and       *)
(* passes.                                                                 *)
(***************************************************************************)
ClipA ==
    add_curve_to_path(
        add_curve_to_path(EmptyClip, <<1, 2>>,
            [keyframe_timestamps |-> <<0, 4>>, keyframes |-> "Rotation"]),
        <<1, 2>>, [keyframe_timestamps |-> <<0>>, keyframes |-> "Weights"])

ClipB ==
    add_curve_to_path(
        add_curve_to_path(EmptyClip, <<1>>,
            [keyframe_timestamps |-> <<0, 2>>, keyframes |-> "Translation"]),
        <<1, 2, 3>>, [keyframe_timestamps |-> <<0, 1, 2>>, keyframes |-> "Scale"])

FadeDurations == {4, 6}

Init ==
    /\ parent = ChainParent
    /\ names = [n \in Nodes |-> n]
    /\ transforms = [n \in Nodes |-> RestTransform]
    /\ morphs = [n \in Nodes |-> Rest]
    /\ animations = <<ClipA, ClipB>>
    /\ player = [e \in {1} |-> DefaultPlayer]
    /\ changed = [e \in {1} |-> TRUE]
    /\ delta = 0
    /\ pc = [e \in {1} |-> "idle"]
    /\ cursor = [e \in {1} |-> 1]
    /\ log = [e \in {1} |-> <<>>]
    /\ steps = 0
    /\ last = NoCall

\* One more control call or pass of the run, recorded.
Step(c) == steps < MaxSteps /\ steps' = steps + 1 /\ last' = c

Next ==
    \/ \E e \in Players, h \in Handles :
          Step(Call("start", h, player[e])) /\ Start(e, h)
    \/ \E e \in Players, h \in Handles, d \in FadeDurations :
          Step(Call("start_with_transition", h, player[e]))
          /\ StartWithTransition(e, h, d)
    \/ \E e \in Players, h \in Handles :
          Step(Call("play", h, player[e])) /\ Play(e, h)
    \/ \E e \in Players, h \in Handles, d \in FadeDurations :
          Step(Call("play_with_transition", h, player[e]))
          /\ PlayWithTransition(e, h, d)
    \/ \E e \in Players : Step(Call("repeat", NoHandle, player[e])) /\ Repeat(e)
    \/ \E e \in Players :
          Step(Call("stop_repeating", NoHandle, player[e])) /\ StopRepeating(e)
    \/ \E e \in Players :
          Step(Call("set_speed", NoHandle, player[e])) /\ SetSpeed(e, -1)
    \/ \E e \in Players : Step(Call("pause", NoHandle, player[e])) /\ Pause(e)
    \/ \E e \in Players : Step(Call("resume", NoHandle, player[e])) /\ Resume(e)
    \/ Step(PassCall) /\ BeginFrame(2)
    \/ \E e \in Players : PlayerBegin(e) /\ UNCHANGED <<steps, last>>
    \/ \E e \in Players : PlayerTransition(e) /\ UNCHANGED <<steps, last>>
    \/ EndFrame /\ UNCHANGED <<steps, last>>

Spec == Init /\ [][Next]_vars

-----------------------------------------------------------------------------
(***************************************************************************)
(* Properties of the control surface (Spec).  last holds the last control  *)
(* call until the next pass begins, so a state with last.op = "play" is    *)
(* the state right after a call of play.                                   *)
(***************************************************************************)
\* The fields a control call may touch, written out.
SameFields(p, q) ==
    /\ p.animation.elapsed = q.animation.elapsed
    /\ p.animation.completions = q.animation.completions
    /\ p.animation.speed = q.animation.speed
    /\ p.animation.repeat = q.animation.repeat
    /\ p.animation.animation_clip = q.animation.animation_clip
    /\ p.transitions = q.transitions
    /\ p.paused = q.paused

\* The requested clip is the active one and the player is not paused.
AlreadyPlaying(p, handle) ==
    /\ p.animation.animation_clip = handle
    /\ ~p.paused

\* C9: play and play_with_transition on the clip that is already active, the
\* player not being paused, change nothing in the player (and so does a second
\* call); while the player is paused, or another clip or none is active, they
\* leave the player as start and start_with_transition would, with elapsed
\* and completions of the active animation at 0.
C9_PlayNoOpOrStart ==
    \A e \in Players :
        LET p == player[e]
            b == last.before
            h == last.handle
        IN /\ last.op = "play" =>
                 IF AlreadyPlaying(b, h)
                 THEN SameFields(p, b) /\ play(p, h) = p
                 ELSE /\ p = start(b, h)
                      /\ p.animation.elapsed = 0 /\ p.animation.completions = 0
                      /\ p.animation.animation_clip = h
           /\ last.op = "play_with_transition" =>
                 IF AlreadyPlaying(b, h)
                 THEN SameFields(p, b)
                      /\ \A d \in FadeDurations : play_with_transition(p, h, d) = p
                 ELSE /\ \E d \in FadeDurations : p = start_with_transition(b, h, d)
                      /\ p.animation.elapsed = 0 /\ p.animation.completions = 0
                      /\ p.animation.animation_clip = h

\* play on the active clip of an unpaused player that has run for a frame,
\* plays backward, repeats forever and holds a fading animation: all kept.
C9_Witness ==
    /\ last.op = "play"
    /\ AlreadyPlaying(last.before, last.handle)
    /\ last.before.animation.elapsed # 0
    /\ last.before.animation.speed = -1
    /\ last.before.transitions # <<>>
    /\ player[1] = last.before

-----------------------------------------------------------------------------
(***************************************************************************)
(* Properties of the transitions list (Spec).                              *)
(***************************************************************************)
\* The list s without its last element.
Front(s) == SubSeq(s, 1, Len(s) - 1)

\* C11: right after start_with_transition(handle, duration) the active
\* animation is a fresh one for handle and the list is the list before the
\* call, in its order and with its weights, with exactly one transition
\* appended at the end: the animation that was active before the call, with
\* its elapsed, speed, repeat and completions, at current_weight 1.0 and
\* weight_decline_per_sec 1/duration.  Only start_with_transition (which
\* play_with_transition calls) makes the list longer: no step of a pass does.
C11_TransitionAppended ==
    /\ [](\A e \in Players :
            last.op = "start_with_transition" =>
                LET p == player[e]
                    b == last.before
                    n == Len(p.transitions)
                IN /\ p.animation = NewAnimation(last.handle)
                   /\ n = Len(b.transitions) + 1
                   /\ Front(p.transitions) = b.transitions
                   /\ p.transitions[n].animation = b.animation
                   /\ p.transitions[n].current_weight = WeightOne
                   /\ \E d \in FadeDurations :
                         p.transitions[n].weight_decline_per_sec =
                             F32Div(WeightOne, Seconds(d)))
    /\ [][\A e \in Players :
             Len(player'[e].transitions) > Len(player[e].transitions)
                 => /\ last'.op \in {"start_with_transition", "play_with_transition"}
                    /\ Len(player'[e].transitions) = Len(player[e].transitions) + 1
                    /\ Idle]_vars

\* start_with_transition on a player that holds a fading animation already
\* and whose active animation has run, plays backward and repeats forever.
C11_Witness ==
    /\ last.op = "start_with_transition"
    /\ Len(last.before.transitions) = 1
    /\ last.before.transitions[1].current_weight < WeightOne
    /\ last.before.animation.elapsed # 0
    /\ last.before.animation.speed = -1
    /\ last.before.animation.repeat = Forever
    /\ Len(player[1].transitions) = 2
    /\ player[1].transitions[1].animation # player[1].transitions[2].animation

-----------------------------------------------------------------------------
(***************************************************************************)
(* SpecFade: one player that began two cross-fades, of every pair of       *)
(* durations of FadeInputs, under passes of one constant delta of          *)
(* FadeDeltas, paused and resumed at will.  steps counts the passes.       *)
(***************************************************************************)
FadeInputs == {3, 4, 5, 10}
FadeDeltas == {1, 2, 3}

InitFade ==
    /\ parent = ChainParent
    /\ names = [n \in Nodes |-> n]
    /\ transforms = [n \in Nodes |-> RestTransform]
    /\ morphs = [n \in Nodes |-> Rest]
    /\ animations = <<WrapClip, WrapClip>>
    /\ \E d1, d2 \in FadeInputs :
          player = [e \in {1} |->
              start_with_transition(
                  start_with_transition(start(DefaultPlayer, 1), 2, d1), 1, d2)]
    /\ changed = [e \in {1} |-> TRUE]
    /\ delta \in FadeDeltas
    /\ pc = [e \in {1} |-> "idle"]
    /\ cursor = [e \in {1} |-> 1]
    /\ log = [e \in {1} |-> <<>>]
    /\ steps = 0
    /\ last = NoCall

NextFade ==
    \/ Step(PassCall) /\ BeginFrame(delta)
    \/ \E e \in Players : PlayerBegin(e) /\ UNCHANGED <<steps, last>>
    \/ \E e \in Players : PlayerTransition(e) /\ UNCHANGED <<steps, last>>
    \/ EndFrame /\ UNCHANGED <<steps, last>>
    \/ \E e \in Players : Pause(e) /\ UNCHANGED <<steps, last>>
    \/ \E e \in Players : Resume(e) /\ UNCHANGED <<steps, last>>

SpecFade == InitFade /\ [][NextFade]_vars

-----------------------------------------------------------------------------
(***************************************************************************)
(* Properties of the decay of transitions (SpecFade).                      *)
(***************************************************************************)
\* The duration a transition was created with, from its decline rate.
DurationOf(t) == CHOOSE d \in FadeInputs : DeclineRate(d) = t.weight_decline_per_sec

\* The frames whose decay the transitions of player e have been through.
FramesDecayed(e) == IF pc[e] = "ready" THEN steps - 1 ELSE steps

\* The f32 nearest to 1 - k * dt / d.
LinearWeight(k, dt, d) == F32Div(F32FromInt(d - k * dt), F32FromInt(d))

\* 2^-18 as f32.
WeightTolerance == (127 - 18) * 2^23

\* The step in which the closure of player e decays its transitions.
Decays(e) == pc[e] = "ready" /\ pc'[e] # "ready"

\* The transitions of a pass that ran are applied at the weights they hold.
AppliedAsHeld(e) ==
    LET ts == player[e].transitions
    IN /\ (pc[e] = "done" /\ ~player[e].paused) => Len(log[e]) = 1 + Len(ts)
       /\ (pc[e] = "done" /\ log[e] # <<>>) =>
              /\ Len(log[e]) = 1 + Len(ts)
              /\ \A i \in 1..Len(ts) :
                    /\ log[e][i + 1].weight = ts[i].current_weight
                    /\ log[e][i + 1].weight > 0
                    /\ log[e][i + 1].weight <= WeightOne

\* C12 as claimed: after k frames of delta dt a transition of duration D is
\* in the list exactly while k * dt < D, at weight 1 - k * dt / D, and is
\* applied at that weight.
C12_LinearDecayAsClaimed ==
    \A e \in Players :
        /\ \A i \in 1..Len(player[e].transitions) :
              LET t == player[e].transitions[i]
                  k == FramesDecayed(e)
              IN /\ k * delta < DurationOf(t)
                 /\ t.current_weight = LinearWeight(k, delta, DurationOf(t))
        /\ AppliedAsHeld(e)

\* C12, amended: with a constant frame delta dt > 0, a transition created
\* with duration D has after k frames the weight that k f32 subtractions of
\* the f32 product weight_decline_per_sec * dt from 1.0 leave, which is
\* 1 - k * dt / D up to rounding (here: within 2^-18); it is in the list, and
\* applied at that weight, in (0, 1], by every pass that applies the player,
\* for as long as that weight is above 0, and it is removed in the first
\* frame in which the weight is <= 0 and never applied again.  That frame is
\* the first for which k * dt >= D when the arithmetic is exact and can be
\* the frame after it when it rounds (here: never earlier, never later than
\* that).  The decay and the pruning run in every frame, also when the
\* player is paused.
C12_LinearDecay ==
    /\ [](\A e \in Players :
            /\ \A i \in 1..Len(player[e].transitions) :
                  LET t == player[e].transitions[i]
                      k == FramesDecayed(e)
                      d == DurationOf(t)
                  IN /\ k >= 1 => (k - 1) * delta < d
                     /\ t.current_weight > 0
                     /\ t.current_weight <= WeightOne
                     /\ Abs(F32Sub(t.current_weight, LinearWeight(k, delta, d)))
                            <= WeightTolerance
            /\ AppliedAsHeld(e))
    /\ [][\A e \in Players :
             Decays(e) =>
                 LET old == player[e].transitions
                     new == player'[e].transitions
                     kept == {i \in 1..Len(old) :
                                 F32Sub(old[i].current_weight,
                                        F32Mul(old[i].weight_decline_per_sec,
                                               Seconds(delta))) > 0}
                 IN /\ Len(new) = Cardinality(kept)
                    /\ \A i \in 1..Len(old) :
                          steps * delta < DurationOf(old[i]) =>
                              /\ i \in kept
                              /\ \E j \in 1..Len(new) :
                                    /\ new[j].weight_decline_per_sec =
                                           old[i].weight_decline_per_sec
                                    /\ new[j].current_weight < old[i].current_weight
                                    /\ new[j].current_weight =
                                           F32Sub(old[i].current_weight,
                                                  F32Mul(old[i].weight_decline_per_sec,
                                                         Seconds(delta)))
                    /\ \A i \in 1..Len(old) :
                          (steps - 1) * delta >= DurationOf(old[i]) => i \notin kept]_vars

\* The fifth frame of 0.1 s of a paused player: the transition of 0.5 s is
\* still in the list, at what rounding left of its weight, next to the
\* transition of 1.0 s at about half its weight.
C12_Witness ==
    /\ steps = 5 /\ delta = 1 /\ pc[1] = "done"
    /\ player[1].paused
    /\ Len(player[1].transitions) = 2
    /\ DurationOf(player[1].transitions[1]) = 5
    /\ DurationOf(player[1].transitions[2]) = 10
    /\ player[1].transitions[1].current_weight > 0
    /\ player[1].transitions[1].current_weight < WeightTolerance
    /\ player[1].transitions[2].current_weight # LinearWeight(5, 1, 10)
    /\ player[1].transitions[2].current_weight < WeightOne

-----------------------------------------------------------------------------
(***************************************************************************)
(* Properties of a pass over a paused player (Spec).                       *)
(***************************************************************************)
\* The step in which the closure of player e applies a transition.
AppliesTransition(e) == pc[e] = "fading" /\ cursor'[e] = cursor[e] + 1

\* The transitions of q are transitions of p, in the order of p, with their
\* animations as they are in p and at a lower weight.
RECURSIVE KeptInOrder(_, _)
KeptInOrder(q, p) ==
    IF q = <<>> THEN TRUE
    ELSE IF p = <<>> THEN FALSE
    ELSE IF /\ Head(q).animation = Head(p).animation
            /\ Head(q).weight_decline_per_sec = Head(p).weight_decline_per_sec
            /\ Head(q).current_weight < Head(p).current_weight
    THEN KeptInOrder(Tail(q), Tail(p))
    ELSE KeptInOrder(q, Tail(p))

-----------------------------------------------------------------------------
(***************************************************************************)
(* Properties of the order of a pass (Spec).                               *)
(***************************************************************************)
\* The weight update_transitions leaves a transition with.
Decayed(t) ==
    F32Sub(t.current_weight, F32Mul(t.weight_decline_per_sec, Seconds(delta)))

\* C14: within one player and one frame, first every transition is decayed
\* and the expired ones are pruned, then the active animation is applied at
\* weight 1.0, then each remaining transition at its decayed weight, oldest
\* first: the calls of a pass are the active animation and then the
\* transitions the player holds, in the order of the list; no transition is
\* applied before the active animation, and none that was pruned in this
\* frame.
C14_PassOrder ==
    /\ [](\A e \in Players :
            last.op = "pass" =>
                \A i \in 1..Len(log[e]) :
                    /\ log[e][i].slot = i - 1
                    /\ i = 1 => /\ log[e][i].weight = WeightOne
                                /\ log[e][i].clip = Active(e).animation_clip
                    /\ i > 1 =>
                          /\ i - 1 <= Len(player[e].transitions)
                          /\ log[e][i].weight =
                                 player[e].transitions[i - 1].current_weight
                          /\ log[e][i].weight > 0
                          /\ log[e][i].clip =
                                 player[e].transitions[i - 1].animation.animation_clip)
    /\ [][\A e \in Players :
             /\ Decays(e) =>
                   LET old == player[e].transitions
                       new == player'[e].transitions
                       kept == {i \in 1..Len(old) : Decayed(old[i]) > 0}
                   IN /\ log[e] = <<>>
                      /\ Len(new) = Cardinality(kept)
                      /\ KeptInOrder(new, old)
                      /\ \A j \in 1..Len(new) :
                            \E i \in kept : new[j].current_weight = Decayed(old[i])
                      /\ Len(log'[e]) <= 1
                      /\ pc'[e] = "fading" => (Len(log'[e]) = 1 /\ new # <<>>)
                      /\ (pc'[e] = "done" /\ log'[e] # <<>>) => new = <<>>
             /\ AppliesTransition(e) =>
                   /\ Len(log[e]) = cursor[e]
                   /\ Len(log'[e]) = cursor[e] + 1
                   /\ SubSeq(log'[e], 1, cursor[e]) = log[e]
                   /\ Len(player'[e].transitions) = Len(player[e].transitions)
                   /\ \A i \in 1..Len(player[e].transitions) :
                         /\ player'[e].transitions[i].current_weight =
                                player[e].transitions[i].current_weight
                         /\ i # cursor[e] =>
                                player'[e].transitions[i] = player[e].transitions[i]
                   /\ pc'[e] = "done" <=> cursor[e] = Len(player[e].transitions)]_vars

\* The end of a pass over a player with two fading animations of different
\* clips and weights: three calls, the older transition before the newer.
C14_Witness ==
    /\ last.op = "pass" /\ pc[1] = "done"
    /\ Len(log[1]) = 3
    /\ log[1][2].weight < log[1][3].weight
    /\ log[1][2].clip # log[1][3].clip
    /\ log[1][3].weight < WeightOne

-----------------------------------------------------------------------------
(***************************************************************************)
(* SpecPath: a player on entity 1 whose clip names the child called 2,     *)
(* that child's child called 3 and the child called 3, at speed 0 and      *)
(* cross-fading from the same clip, while the other entities are renamed,  *)
(* removed from their parent and put under another between the passes.     *)
(***************************************************************************)
PathClip ==
    add_curve_to_path(
        add_curve_to_path(
            add_curve_to_path(EmptyClip, <<1, 2>>,
                [keyframe_timestamps |-> <<0, 4>>, keyframes |-> "Rotation"]),
            <<1, 2, 3>>, [keyframe_timestamps |-> <<0, 4>>, keyframes |-> "Translation"]),
        <<1, 3>>, [keyframe_timestamps |-> <<0, 4>>, keyframes |-> "Scale"])

\* A player at speed 0 that began a cross-fade of 6 ticks from clip 1 at
\* speed 0.
PathPlayer ==
    set_speed(start_with_transition(set_speed(start(DefaultPlayer, 1), 0), 1, 6), 0)

\* The hierarchy is edited: entity n gets another name.
Rename(n, name) ==
    /\ Idle
    /\ names[n] # name
    /\ names' = [names EXCEPT ![n] = name]
    /\ UNCHANGED <<parent, transforms, morphs, animations, player, changed,
                   delta, pc, cursor, log>>

\* The hierarchy is edited: entity n is removed from its parent and put under
\* q, or under none.
Reparent(n, q) ==
    /\ Idle
    /\ parent[n] # q
    /\ q # NoEntity => ~IsAncestorOrSelf(parent, n, q)
    /\ parent' = [parent EXCEPT ![n] = q]
    /\ UNCHANGED <<names, transforms, morphs, animations, player, changed,
                   delta, pc, cursor, log>>

InitPath ==
    /\ parent = ChainParent
    /\ names = [n \in Nodes |-> n]
    /\ transforms = [n \in Nodes |-> RestTransform]
    /\ morphs = [n \in Nodes |-> Rest]
    /\ animations = <<PathClip>>
    /\ player = [e \in {1} |-> PathPlayer]
    /\ changed = [e \in {1} |-> TRUE]
    /\ delta = 0
    /\ pc = [e \in {1} |-> "idle"]
    /\ cursor = [e \in {1} |-> 1]
    /\ log = [e \in {1} |-> <<>>]
    /\ steps = 0
    /\ last = NoCall

NextPath ==
    \/ \E n \in Nodes \ Players, name \in Names :
          Rename(n, name) /\ UNCHANGED <<steps, last>>
    \/ \E n \in Nodes \ Players, q \in Nodes \cup {NoEntity} :
          Reparent(n, q) /\ UNCHANGED <<steps, last>>
    \/ BeginFrame(2) /\ UNCHANGED <<steps, last>>
    \/ \E e \in Players : PlayerBegin(e) /\ UNCHANGED <<steps, last>>
    \/ \E e \in Players : PlayerTransition(e) /\ UNCHANGED <<steps, last>>
    \/ EndFrame /\ UNCHANGED <<steps, last>>

SpecPath == InitPath /\ [][NextPath]_vars

-----------------------------------------------------------------------------
(***************************************************************************)
(* Properties of the path cache (SpecPath).                                *)
(***************************************************************************)
\* The node a cache holds for part idx - 1 of a path resolved from root.
NodeAt(root, cache, idx) == IF idx = 1 THEN root ELSE cache[idx]

\* The cache holds, for each part of the path up to part n - 1, a node that
\* is a child of the node of the part before and carries the part's name.
ValidUpTo(root, path, cache, n) ==
    \A idx \in 2..n :
        /\ cache[idx] # NoEntity
        /\ parent[cache[idx]] = NodeAt(root, cache, idx - 1)
        /\ names[cache[idx]] = path[idx]

\* The first child of node n, in the order of its Children, called name.
FirstNamed(n, name) ==
    LET cs == ChildrenOf(n)
        hits == {i \in 1..Len(cs) : names[cs[i]] = name}
    IN IF hits = {} THEN NoEntity
       ELSE cs[CHOOSE i \in hits : \A j \in hits : i <= j]

\* The cache apply_animation hands entity_from_path for a bone, resized as
\* entity_from_path resizes it.
CacheBefore(e, f) ==
    Resize(IF Len(Active(e).path_cache) = Len(animations[Active(e).animation_clip].paths)
           THEN Active(e).path_cache[f.bone_id + 1]
           ELSE <<>>,
           Len(f.path))

\* C15: resolving a path whose cache is valid for the hierarchy as it is
\* (the case of a second resolution against an unchanged hierarchy) returns
\* the cached node, takes every part from the cache and scans no child list
\* by name.  A node that is returned is never stale: it is reached from the
\* root through children carrying the names of the path, and the cache holds
\* that chain afterwards.  Where the cached child of some depth is no longer
\* a child of the current node or no longer carries the name (or nothing is
\* cached), the call scans the children of the current node, goes on with the
\* first child of that name and stores it in the slot, or returns not-found
\* when no child has the name.
C15_PathCache ==
    [][\A e \in Players :
          (Decays(e) /\ Len(log'[e]) = 1) =>
              \A i \in 1..Len(log'[e][1].found) :
                  LET f == log'[e][1].found[i]
                      n == Len(f.path)
                      pre == CacheBefore(e, f)
                      post == ActiveAfter(e).path_cache[f.bone_id + 1]
                      stale == {idx \in 2..n : ~ValidUpTo(e, f.path, pre, idx)}
                      first == CHOOSE idx \in stale : \A j \in stale : idx <= j
                      scanned == FirstNamed(NodeAt(e, pre, first - 1), f.path[first])
                  IN /\ Len(post) = n
                     /\ stale = {} =>
                            /\ f.target = NodeAt(e, pre, n)
                            /\ f.scans = 0
                            /\ post = pre
                     /\ f.target # NoEntity =>
                            /\ ValidUpTo(e, f.path, post, n)
                            /\ f.target = NodeAt(e, post, n)
                     /\ stale # {} =>
                            IF scanned = NoEntity
                            THEN f.target = NoEntity /\ post = pre
                            ELSE /\ f.scans >= 1
                                 /\ post[first] = scanned
                                 /\ \A idx \in 2..(first - 1) : post[idx] = pre[idx]]_vars

\* A pass that found the child the cache held for "2" gone from the root
\* (an earlier pass had written to it), scanned the root's children once and
\* went on with entity 3, which carries the name now.
C15_Witness ==
    /\ pc[1] = "done" /\ Len(log[1]) = 1
    /\ transforms[2].rotation.by = 1
    /\ parent[2] # 1
    /\ \E i \in 1..Len(log[1][1].found) :
          /\ log[1][1].found[i].path = <<1, 2>>
          /\ log[1][1].found[i].target = 3
          /\ log[1][1].found[i].scans = 1
    /\ Active(1).path_cache[1] = <<NoEntity, 3>>

-----------------------------------------------------------------------------
(***************************************************************************)
(* Properties of a failed resolution (SpecPath).                           *)
(***************************************************************************)
\* The step in which the closure of player e makes an apply_animation call.
Applies(e) == Len(log'[e]) = Len(log[e]) + 1

\* The call of that step.
Call1(e) == log'[e][Len(log'[e])]

\* The nodes the call wrote a value of the kind to.
WrittenAs(call, kind) ==
    {call.writes[j].node : j \in {j \in 1..Len(call.writes) : call.writes[j].kind = kind}}

\* C16: a path of a clip that entity_from_path does not resolve costs the
\* frame the curves of that path only: every apply_animation call goes
\* through all the paths of its clip, whether or not an earlier one failed
\* (so a path that failed is resolved again in the next frame), writes the
\* curves of each path that resolves to the node it resolves to and nothing
\* for a path that does not, and the transitions after the call are applied
\* in the same pass.
C16_FailureIsolated ==
    [][\A e \in Players :
          Applies(e) =>
              LET call == Call1(e)
                  clip == animations[call.clip]
              IN /\ call.ran = "sampled"
                 /\ Len(call.found) = Len(clip.paths)
                 /\ \A i \in 1..Len(clip.paths) :
                       LET f == call.found[i]
                           kind == clip.curves[f.bone_id + 1][1].keyframes
                       IN /\ f.path = clip.paths[i][1]
                          /\ f.bone_id = clip.paths[i][2]
                          /\ f.target # NoEntity =>
                                 /\ WrittenAs(call, kind) = {f.target}
                                 /\ transforms'[f.target][FieldOf(kind)].by = e
                                 /\ transforms'[f.target][FieldOf(kind)].weight = call.weight
                          /\ f.target = NoEntity => WrittenAs(call, kind) = {}
                 /\ pc'[e] = "done" <=> Len(log'[e]) = 1 + Len(player'[e].transitions)]_vars

\* The end of a pass in which the active animation and the transition both
\* failed to resolve the first path of the clip and the path below it, and
\* both wrote the scale of the child called 3.
C16_Witness ==
    /\ pc[1] = "done" /\ Len(log[1]) = 2
    /\ \A k \in 1..2 :
          /\ log[1][k].found[1].target = NoEntity
          /\ log[1][k].found[2].target = NoEntity
          /\ log[1][k].found[3].target # NoEntity
          /\ WrittenAs(log[1][k], "Scale") = {log[1][k].found[3].target}
          /\ WrittenAs(log[1][k], "Rotation") = {}
    /\ transforms[log[1][2].found[3].target].scale.weight = log[1][2].weight

-----------------------------------------------------------------------------
(***************************************************************************)
(* SpecStore: one player under start and start_with_transition with a      *)
(* handle the store holds (1) and one it does not (2), paused and resumed, *)
(* under passes of 2 ticks.  A run makes at most MaxSteps calls and passes.*)
(***************************************************************************)
InitStore ==
    /\ parent = ChainParent
    /\ names = [n \in Nodes |-> n]
    /\ transforms = [n \in Nodes |-> RestTransform]
    /\ morphs = [n \in Nodes |-> Rest]
    /\ animations = <<ClipA>>
    /\ player = [e \in {1} |-> DefaultPlayer]
    /\ changed = [e \in {1} |-> TRUE]
    /\ delta = 0
    /\ pc = [e \in {1} |-> "idle"]
    /\ cursor = [e \in {1} |-> 1]
    /\ log = [e \in {1} |-> <<>>]
    /\ steps = 0
    /\ last = NoCall

NextStore ==
    \/ \E e \in Players, h \in Handles :
          Step(Call("start", h, player[e])) /\ Start(e, h)
    \/ \E e \in Players, h \in Handles, d \in FadeDurations :
          Step(Call("start_with_transition", h, player[e]))
          /\ StartWithTransition(e, h, d)
    \/ \E e \in Players : Step(Call("pause", NoHandle, player[e])) /\ Pause(e)
    \/ \E e \in Players : Step(Call("resume", NoHandle, player[e])) /\ Resume(e)
    \/ Step(PassCall) /\ BeginFrame(2)
    \/ \E e \in Players : PlayerBegin(e) /\ UNCHANGED <<steps, last>>
    \/ \E e \in Players : PlayerTransition(e) /\ UNCHANGED <<steps, last>>
    \/ EndFrame /\ UNCHANGED <<steps, last>>

SpecStore == InitStore /\ [][NextStore]_vars

-----------------------------------------------------------------------------
(***************************************************************************)
(* Properties of a handle the store does not hold (SpecStore).             *)
(***************************************************************************)
\* The animation has a handle and the store has no clip for it.
Missing(a) ==
    a.animation_clip # NoHandle /\ a.animation_clip \notin DOMAIN animations

-----------------------------------------------------------------------------
(***************************************************************************)
(* SpecClip: a clip of the store built from the empty clip by up to        *)
(* MaxCurves calls of add_curve_to_path, with paths of ClipPaths and       *)
(* timestamps of ClipTimestamps; no player is in the scene.                *)
(***************************************************************************)
ClipPaths == {<<1>>, <<1, 2>>}
ClipTimestamps == {<<>>, <<-2, -1>>, <<0>>, <<1>>, <<0, 3>>}

\* The tracks of a clip, bone after bone.
RECURSIVE Tracks(_, _)
Tracks(clip, b) ==
    IF b > Len(clip.curves) THEN <<>>
    ELSE clip.curves[b] \o Tracks(clip, b + 1)

\* The asset is edited: add_curve_to_path on the clip of handle h.
AddCurve(h, path, curve) ==
    /\ Idle
    /\ Len(Tracks(animations[h], 1)) < MaxCurves
    /\ animations' = [animations EXCEPT ![h] = add_curve_to_path(@, path, curve)]
    /\ UNCHANGED <<parent, names, transforms, morphs, player, changed, delta,
                   pc, cursor, log>>

InitClip ==
    /\ parent = ChainParent
    /\ names = [n \in Nodes |-> n]
    /\ transforms = [n \in Nodes |-> RestTransform]
    /\ morphs = [n \in Nodes |-> Rest]
    /\ animations = <<EmptyClip>>
    /\ player = <<>>
    /\ changed = <<>>
    /\ delta = 0
    /\ pc = <<>>
    /\ cursor = <<>>
    /\ log = <<>>
    /\ steps = 0
    /\ last = NoCall

NextClip ==
    \E path \in ClipPaths, ts \in ClipTimestamps :
        /\ AddCurve(1, path, [keyframe_timestamps |-> ts, keyframes |-> "Translation"])
        /\ UNCHANGED <<steps, last>>

SpecClip == InitClip /\ [][NextClip]_vars

-----------------------------------------------------------------------------
(***************************************************************************)
(* Properties of a clip under construction (SpecClip).                     *)
(***************************************************************************)
\* The last timestamps of the tracks of a clip, 0 for a track without
\* timestamps.
LastTimestamps(clip) ==
    {IF Tracks(clip, 1)[i].keyframe_timestamps = <<>> THEN 0
     ELSE Tracks(clip, 1)[i].keyframe_timestamps[
              Len(Tracks(clip, 1)[i].keyframe_timestamps)] :
        i \in 1..Len(Tracks(clip, 1))}

\* The largest element of a non-empty set of integers.
MaxOf(S) == CHOOSE x \in S : \A y \in S : y <= x

\* C18 as claimed: after every add_curve_to_path call on a clip that began
\* empty, duration is the maximum of the last timestamps of the tracks
\* stored so far, and it has not decreased.
C18_DurationAsClaimed ==
    [][LET clip == animations'[1]
       IN /\ clip.duration = MaxOf(LastTimestamps(clip))
          /\ clip.duration >= animations[1].duration]_vars

\* C18, amended: after every add_curve_to_path call on a clip that began
\* empty, duration is the maximum of 0 and the last timestamps of the
\* tracks stored so far (the maximum of the last timestamps when one of
\* them is not negative), and it has not decreased.
C18_Duration ==
    [][LET clip == animations'[1]
       IN /\ clip.duration = MaxOf(LastTimestamps(clip) \cup {0})
          /\ (\E t \in LastTimestamps(clip) : t >= 0) =>
                 clip.duration = MaxOf(LastTimestamps(clip))
          /\ clip.duration >= animations[1].duration]_vars

\* A clip of two bones whose first bone got a track ending at 3, then one
\* ending at 1, then one without timestamps, and whose second bone has a
\* track of negative timestamps: the duration is still 3.
C18_Witness ==
    /\ Len(animations[1].curves) = 2
    /\ Len(animations[1].curves[1]) = 3
    /\ animations[1].curves[1][1].keyframe_timestamps = <<0, 3>>
    /\ animations[1].curves[1][2].keyframe_timestamps = <<1>>
    /\ animations[1].curves[1][3].keyframe_timestamps = <<>>
    /\ animations[1].curves[2][1].keyframe_timestamps = <<-2, -1>>
    /\ animations[1].duration = 3


-----------------------------------------------------------------------------
(***************************************************************************)
(* The sampling time and the stored elapsed of a finished animation        *)
(* (SpecWrap).                                                             *)
(***************************************************************************)
\* C19: for a clip with duration > 0, whatever the stored elapsed and the
\* speed of the animation, every apply_animation call that reaches the
\* curves samples them at a time in [0, duration).
C19_SampleTimeInRange ==
    \A e \in Players :
        \A i \in 1..Len(log[e]) :
            (/\ log[e][i].ran = "sampled"
             /\ animations[log[e][i].clip].duration > 0)
            => /\ 0 <= log[e][i].at
               /\ log[e][i].at < animations[log[e][i].clip].duration

\* C20: a finished animation keeps its last wrapped elapsed and stops
\* advancing.  After a pass that applies an active animation which is then
\* finished, the stored elapsed lies in [0, duration]; and a pass that
\* applies an animation already finished leaves the stored elapsed as it
\* was while it samples the curves and writes the pose.
C20_FinishedKeepsWrappedElapsed ==
    [][\A e \in Players :
          (AppliesActive(e) /\ finished(ActiveAfter(e)))
          => /\ 0 <= ActiveAfter(e).elapsed
             /\ ActiveAfter(e).elapsed <= ActiveDuration(e)
             /\ finished(Active(e))
                => /\ ActiveAfter(e).elapsed = Active(e).elapsed
                   /\ log'[e][1].ran = "sampled"
                   /\ log'[e][1].writes # <<>>]_vars

-----------------------------------------------------------------------------
(***************************************************************************)
(* SpecGrow: a player on entity 1 at speed 0 whose clip begins empty and   *)
(* gets up to MaxCurves tracks by add_curve_to_path between the passes,    *)
(* while the other entities are renamed and the last entity of the chain   *)
(* is moved between entity 1 and entity 2.                                 *)
(***************************************************************************)
GrowPaths == {<<1, 2>>, <<1, 3>>, <<1, 2, 3>>}
GrowCurve == [keyframe_timestamps |-> <<0, 4>>, keyframes |-> "Translation"]
GrowPlayer == set_speed(start(DefaultPlayer, 1), 0)

InitGrow ==
    /\ parent = ChainParent
    /\ names = [n \in Nodes |-> n]
    /\ transforms = [n \in Nodes |-> RestTransform]
    /\ morphs = [n \in Nodes |-> Rest]
    /\ animations = <<EmptyClip>>
    /\ player = [e \in {1} |-> GrowPlayer]
    /\ changed = [e \in {1} |-> TRUE]
    /\ delta = 0
    /\ pc = [e \in {1} |-> "idle"]
    /\ cursor = [e \in {1} |-> 1]
    /\ log = [e \in {1} |-> <<>>]
    /\ steps = 0
    /\ last = NoCall

NextGrow ==
    \/ \E path \in GrowPaths :
          AddCurve(1, path, GrowCurve) /\ UNCHANGED <<steps, last>>
    \/ \E n \in Nodes \ Players, name \in Names :
          Rename(n, name) /\ UNCHANGED <<steps, last>>
    \/ \E q \in {1, 2} : Reparent(NumNodes, q) /\ UNCHANGED <<steps, last>>
    \/ BeginFrame(2) /\ UNCHANGED <<steps, last>>
    \/ \E e \in Players : PlayerBegin(e) /\ UNCHANGED <<steps, last>>
    \/ EndFrame /\ UNCHANGED <<steps, last>>

SpecGrow == InitGrow /\ [][NextGrow]_vars

-----------------------------------------------------------------------------
(***************************************************************************)
(* Properties of a clip that grows under a player (SpecGrow).              *)
(***************************************************************************)
\* The bone ids of the clip's path map.
BoneIds(clip) == {clip.paths[i][2] : i \in 1..Len(clip.paths)}

\* C21: after every sequence of add_curve_to_path calls the path map is a
\* bijection between the stored paths and the bone ids 0..curves.len()-1
\* and every bone has a track; and in the pass that applies the clip the
\* path_cache has one slot per path and every bone id read from the map
\* indexes both curves and path_cache.
C21_PathMapBijection ==
    /\ [](LET clip == animations[1]
          IN /\ \A i, j \in 1..Len(clip.paths) :
                   (clip.paths[i][1] = clip.paths[j][1]
                    \/ clip.paths[i][2] = clip.paths[j][2]) => i = j
             /\ BoneIds(clip) = 0..(Len(clip.curves) - 1)
             /\ \A b \in 1..Len(clip.curves) : Len(clip.curves[b]) >= 1)
    /\ [][\A e \in Players :
             AppliesActive(e) =>
                /\ log'[e][1].ran = "sampled"
                /\ Len(ActiveAfter(e).path_cache) = Len(animations[1].paths)
                /\ Len(log'[e][1].found) = Len(animations[1].paths)
                /\ \A k \in 1..Len(log'[e][1].found) :
                      /\ log'[e][1].found[k].bone_id + 1
                            \in 1..Len(animations[1].curves)
                      /\ log'[e][1].found[k].bone_id + 1
                            \in 1..Len(ActiveAfter(e).path_cache)]_vars

\* A clip of three paths, the first of them with two tracks, applied by a
\* pass that read three bone ids.
C21_Witness ==
    /\ Len(animations[1].paths) = 3
    /\ Len(animations[1].curves[1]) = 2
    /\ pc[1] = "done"
    /\ Len(log[1][1].found) = 3
    /\ Len(player[1].animation.path_cache) = 3

\* The entry of slot b at depth k of a path cache, NoEntity where there is
\* none.
SlotEntry(cache, b, k) ==
    IF b <= Len(cache) /\ k <= Len(cache[b]) THEN cache[b][k] ELSE NoEntity

\* The path stored under bone id b - 1, and what the pass logged for it.
PathOfBone(clip, b) ==
    clip.paths[CHOOSE i \in 1..Len(clip.paths) : clip.paths[i][2] = b - 1][1]
FoundOfBone(entry, b) ==
    entry.found[CHOOSE i \in 1..Len(entry.found) : entry.found[i].bone_id = b - 1]

\* Node n is now a child with the name of segment k of the path of slot b,
\* under the root (k = 2) or under the node the cache holds one segment up.
FreshIn(cache, root, clip, b, k, n) ==
    /\ names[n] = PathOfBone(clip, b)[k]
    /\ parent[n] = (IF k = 2 THEN root ELSE cache[b][k - 1])

\* The number of nodes slot b holds.
Cached(cache, b) ==
    Cardinality({k \in 1..Len(cache[b]) : cache[b][k] # NoEntity})

\* C23 as claimed: the cache persists across frames.  A pass that applies
\* the animation leaves the cache with one slot per path of the clip and
\* keeps every node cached before it in its slot, whether the number of
\* paths is what it was (nothing is replaced) or has changed (the cache is
\* resized, not cleared).
C23_CacheOnlyResized ==
    [][\A e \in Players :
          AppliesActive(e) =>
             /\ Len(ActiveAfter(e).path_cache) = Len(animations[1].paths)
             /\ \A b \in 1..Len(Active(e).path_cache) :
                   \A k \in 1..Len(Active(e).path_cache[b]) :
                      Active(e).path_cache[b][k] # NoEntity
                      => SlotEntry(ActiveAfter(e).path_cache, b, k)
                            = Active(e).path_cache[b][k]]_vars

\* C23, amended: a pass that applies the animation leaves the cache with
\* one slot per path of the clip.  While the number of paths is what the
\* cache was sized for, an entry changes only to a node found by a scan in
\* this pass, and a cached node is replaced only when it is no longer the
\* child of that name.  When the number of paths differs, the cache is
\* cleared: after the pass it holds only nodes that a scan of this pass
\* found, whatever it held before.
C23_CachePersists ==
    [][\A e \in Players :
          AppliesActive(e) =>
             LET old == Active(e).path_cache
                 new == ActiveAfter(e).path_cache
                 clip == animations[1]
             IN /\ Len(new) = Len(clip.paths)
                /\ Len(old) = Len(clip.paths) =>
                      \A b \in 1..Len(new) : \A k \in 1..Len(new[b]) :
                         new[b][k] # SlotEntry(old, b, k) =>
                            /\ new[b][k] # NoEntity
                            /\ FreshIn(new, e, clip, b, k, new[b][k])
                            /\ FoundOfBone(log'[e][1], b).scans >= 1
                            /\ SlotEntry(old, b, k) # NoEntity =>
                                  ~FreshIn(new, e, clip, b, k, SlotEntry(old, b, k))
                /\ Len(old) # Len(clip.paths) =>
                      \A b \in 1..Len(new) :
                         /\ FoundOfBone(log'[e][1], b).scans >= Cached(new, b)
                         /\ \A k \in 1..Len(new[b]) :
                               new[b][k] # NoEntity =>
                                  FreshIn(new, e, clip, b, k, new[b][k])]_vars

\* After a pass over a clip of two paths the slot of the path <<1, 2>> is
\* empty, the child of that name being gone, and the slot of the path
\* <<1, 3>> holds the child a scan of this pass found.
C23_Witness ==
    /\ pc[1] = "done"
    /\ Len(animations[1].paths) = 2
    /\ animations[1].paths[1][1] = <<1, 2>>
    /\ animations[1].paths[2][1] = <<1, 3>>
    /\ player[1].animation.path_cache[1] = <<NoEntity, NoEntity>>
    /\ player[1].animation.path_cache[2][2] # NoEntity
    /\ log[1][1].found[2].scans = 1

-----------------------------------------------------------------------------
(***************************************************************************)
(* SpecSearch: the keyframe search on one track.  The clip of the store    *)
(* has one track of 2..MaxKeys non-decreasing f32 timestamps drawn from    *)
(* SearchTimes, and the track is searched at each of these times; no       *)
(* player is in the scene.  Timestamps and times are f32 bit patterns.     *)
(***************************************************************************)
\* The largest f32 below 1.0, and -3 * 2^-26.
BelowOne == WeightOne - 1
BelowZero == F32Div(F32FromInt(-3), F32FromInt(2^26))

SearchTimes == {BelowZero, 0, BelowOne, WeightOne, F32FromInt(2)}

SearchTimestamps ==
    UNION {{ts \in [1..n -> SearchTimes] : \A i \in 1..(n - 1) : ts[i] <= ts[i + 1]} :
              n \in 2..MaxKeys}

SearchedTrack == animations[1].curves[1][1].keyframe_timestamps

InitSearch ==
    /\ parent = ChainParent
    /\ names = [n \in Nodes |-> n]
    /\ transforms = [n \in Nodes |-> RestTransform]
    /\ morphs = [n \in Nodes |-> Rest]
    /\ \E ts \in SearchTimestamps :
          animations = <<add_curve_to_path(EmptyClip, <<1>>,
                            [keyframe_timestamps |-> ts, keyframes |-> "Translation"])>>
    /\ player = <<>>
    /\ changed = <<>>
    /\ delta = 0
    /\ pc = <<>>
    /\ cursor = <<>>
    /\ log = <<>>
    /\ steps = 0
    /\ last = NoCall

\* Lines 611-625 for the track at time elapsed: step_start, Skip for
\* "continue", and lerp.
Sample(elapsed) ==
    /\ \E r \in SearchResults(SearchedTrack, elapsed) :
          LET step_start == StepStartOf(SearchedTrack, r)
          IN last' = [op |-> "sample", handle |-> 1, before |-> DefaultPlayer,
                      at |-> elapsed, step_start |-> step_start,
                      lerp |-> IF step_start = Skip THEN NaN
                               ELSE Lerp(SearchedTrack, step_start, elapsed)]
    /\ UNCHANGED <<parent, names, transforms, morphs, animations, player,
                   changed, delta, pc, cursor, log, steps>>

NextSearch == \E elapsed \in SearchTimes : Sample(elapsed)

SpecSearch == InitSearch /\ [][NextSearch]_vars

-----------------------------------------------------------------------------
(***************************************************************************)
(* Properties of the keyframe search (SpecSearch).                         *)
(***************************************************************************)
StrictlyIncreasing(ts) == \A i \in 1..(Len(ts) - 1) : ts[i] < ts[i + 1]

\* Outside the track: before the first timestamp, or at or after the last.
Outside(ts, t) == t < ts[1] \/ t >= ts[Len(ts)]

\* step_start = i brackets t: indices (i, i+1) within the track with
\* ts[i] <= t < ts[i+1] (0-based, as in the code).
Brackets(ts, i, t) ==
    /\ i >= 0 /\ i + 2 <= Len(ts)
    /\ ts[i + 1] <= t /\ t < ts[i + 2]

\* C22 as claimed: for a track of two or more non-decreasing timestamps,
\* sampling at t writes nothing when t is before the first timestamp, after
\* the last or equal to the last; in every other case the indices selected
\* bracket t, the denominator of lerp is not zero and lerp lies in [0, 1).
C22_SearchAsClaimed ==
    last.op = "sample" =>
        IF Outside(SearchedTrack, last.at)
        THEN last.step_start = Skip
        ELSE /\ last.step_start # Skip
             /\ Brackets(SearchedTrack, last.step_start, last.at)
             /\ last.lerp # NaN
             /\ 0 <= last.lerp /\ last.lerp < WeightOne

\* C22, amended: the same for a track of two or more strictly increasing
\* timestamps, with lerp, as computed in f32, in [0, 1].
C22_Search ==
    (last.op = "sample" /\ StrictlyIncreasing(SearchedTrack)) =>
        IF Outside(SearchedTrack, last.at)
        THEN last.step_start = Skip
        ELSE /\ last.step_start # Skip
             /\ Brackets(SearchedTrack, last.step_start, last.at)
             /\ last.lerp # NaN
             /\ 0 <= last.lerp /\ last.lerp <= WeightOne

\* The track with timestamps -3 * 2^-26 and 1.0 sampled at the largest f32
\* below 1.0: the first pair of keyframes is selected and both differences
\* round to 1.0, so that lerp is 1.0.
C22_Witness ==
    /\ last.op = "sample"
    /\ SearchedTrack = <<BelowZero, WeightOne>>
    /\ last.at = BelowOne
    /\ last.step_start = 0
    /\ last.lerp = WeightOne

=============================================================================
